---- MODULE Spec2Model ----
(***************************************************************************)
(* A model of the esxtop batch-data visualizer core:                       *)
(*   parser.py     parse_csv_header                                        *)
(*   extractor.py  TimeSeriesData, extract_column_data,                    *)
(*                 extract_multiple_columns, save_time_series              *)
(*   visualizer.py load_data_file                                          *)
(* with the scripts of scripts/ that call it, the two scripts they         *)
(* replace, and the upload handling of app.py.                             *)
(* Text is modelled as TLA+ strings, character by character, so that the   *)
(* conversions (dequoting, float parsing and formatting, timestamp         *)
(* matching and parsing, line splitting) are computed as the code computes *)
(* them.  A CSV file is the list of rows csv.reader yields for it.         *)
(***************************************************************************)
EXTENDS Integers, Sequences, FiniteSets, TLC

VARIABLES
    csvfile,          \* the source CSV: [exists, rows]
    datafile,         \* the series file: [exists, lines]
    outcome,          \* per operation: notcalled / running / returned / exception
    cursor,           \* rows, cells or lines the running operation has consumed
    column_index,     \* argument of extract_column_data
    column_indices,   \* argument of extract_multiple_columns
    time_series,      \* TimeSeriesData of extract_column_data / of the caller
    time_series_map,  \* result under construction of extract_multiple_columns
    columns,          \* result under construction of parse_csv_header
    scale,            \* argument of load_data_file
    timestamps,       \* load_data_file: parsed datetimes
    values,           \* load_data_file: parsed and scaled values
    skipped,          \* load_data_file: malformed-line counter
    stderr,           \* warnings printed: the skipped counts reported
    fault,            \* the read failure the source CSV is subject to
    raised,           \* per CSV operation: the exception underlying its failure
    handle,           \* per CSV operation: opens made, handle held, rows fetched
    fs,               \* the output directory: path -> content
    job,              \* the running extract_and_save / extract_and_save_batch
    result,           \* the last call of a function that returns a value
    process,          \* the run of a script: arguments, output, exit status
    disk,             \* files written by concurrent invocations: path -> text
    writers,          \* the concurrent invocations of extract_and_save
    cwd,              \* the working directory of the web wrapper's process
    requests,         \* the upload requests of the web wrapper
    tmpdirs           \* the output directories of the uploads: dir -> files

vars == <<csvfile, datafile, outcome, cursor, column_index, column_indices,
          time_series, time_series_map, columns, scale, timestamps, values,
          skipped, stderr, fault, raised, handle, fs, job, result,
          process, disk, writers, cwd, requests, tmpdirs>>

\* What the reading of a source involves beside the rows.
source == <<fault, raised, handle>>

\* What the operations of the core on one file leave alone.
side == <<fs, job, result>>

\* What surrounds the calls of the core: the script that makes them, the
\* invocations that run beside them, and the web wrapper.
around == <<process, disk, writers, cwd, requests, tmpdirs>>

-----------------------------------------------------------------------------
(* Python str primitives over TLA+ strings.                                *)

Ch(s, i) == SubSeq(s, i, i)

Range(seq) == {seq[k] : k \in 1..Len(seq)}

StartsWith(s, prefix) ==
    /\ Len(s) >= Len(prefix)
    /\ SubSeq(s, 1, Len(prefix)) = prefix

\* str.endswith
EndsWith(s, suffix) ==
    /\ Len(s) >= Len(suffix)
    /\ SubSeq(s, Len(s) - Len(suffix) + 1, Len(s)) = suffix

RECURSIVE LStrip(_, _)
LStrip(s, chars) ==
    IF Len(s) > 0 /\ Ch(s, 1) \in chars THEN LStrip(Tail(s), chars) ELSE s

RECURSIVE RStrip(_, _)
RStrip(s, chars) ==
    IF Len(s) > 0 /\ Ch(s, Len(s)) \in chars
    THEN RStrip(SubSeq(s, 1, Len(s) - 1), chars)
    ELSE s

\* str.strip(chars): removes every leading and trailing character in chars.
StripChars(s, chars) == RStrip(LStrip(s, chars), chars)

Whitespace == {" ", "\t", "\n", "\r"}

\* str.strip()
Strip(s) == StripChars(s, Whitespace)

\* Position of the first occurrence of sep in s at or after i, 0 if none.
RECURSIVE Find(_, _, _)
Find(s, sep, i) ==
    IF i + Len(sep) - 1 > Len(s) THEN 0
    ELSE IF SubSeq(s, i, i + Len(sep) - 1) = sep THEN i
    ELSE Find(s, sep, i + 1)

\* str.split(sep): the list of segments between the occurrences of sep.
RECURSIVE Split(_, _)
Split(s, sep) ==
    LET p == Find(s, sep, 1) IN
    IF p = 0 THEN <<s>>
    ELSE <<SubSeq(s, 1, p - 1)>> \o Split(SubSeq(s, p + Len(sep), Len(s)), sep)

\* sep.join(parts)
RECURSIVE Join(_, _)
Join(parts, sep) ==
    IF Len(parts) = 0 THEN ""
    ELSE IF Len(parts) = 1 THEN parts[1]
    ELSE parts[1] \o sep \o Join(Tail(parts), sep)

Digits == <<"0", "1", "2", "3", "4", "5", "6", "7", "8", "9">>

DigitSet == Range(Digits)

IsDigit(c) == c \in DigitSet

DigitVal(c) == (CHOOSE k \in 1..10 : Digits[k] = c) - 1

AllDigits(s) == \A k \in 1..Len(s) : IsDigit(Ch(s, k))

\* int(s) of a string of decimal digits (0 for the empty string).
RECURSIVE ToNat(_)
ToNat(s) ==
    IF Len(s) = 0 THEN 0
    ELSE 10 * ToNat(SubSeq(s, 1, Len(s) - 1)) + DigitVal(Ch(s, Len(s)))

\* str(n) of a natural number.
RECURSIVE NatStr(_)
NatStr(n) ==
    IF n < 10 THEN Digits[n + 1] ELSE NatStr(n \div 10) \o Digits[(n % 10) + 1]

\* str(n) of an integer.
IntStr(n) == IF n < 0 THEN "-" \o NatStr(-n) ELSE NatStr(n)

RECURSIVE Pow10(_)
Pow10(e) == IF e = 0 THEN 1 ELSE 10 * Pow10(e - 1)

\* n printed with exactly w digits (leading zeros).
RECURSIVE ZeroPad(_, _)
ZeroPad(n, w) ==
    IF w = 0 THEN "" ELSE ZeroPad(n \div 10, w - 1) \o Digits[(n % 10) + 1]

\* str.lower() on the letters the float literals use.
LowerCh(c) ==
    CASE c = "N" -> "n" [] c = "A" -> "a" [] c = "I" -> "i" [] c = "F" -> "f"
      [] c = "T" -> "t" [] c = "Y" -> "y" [] OTHER -> c

RECURSIVE Lower(_)
Lower(s) == IF Len(s) = 0 THEN "" ELSE LowerCh(Ch(s, 1)) \o Lower(Tail(s))

-----------------------------------------------------------------------------
(* Optional[float].  A finite float is the decimal m * 10^-e with sign     *)
(* neg, kept normalised (no trailing zero in the fraction), which is the   *)
(* value repr() prints for the short decimals of the model.                *)

None == [k |-> "None", neg |-> FALSE, m |-> 0, e |-> 0]

NaN == [k |-> "nan", neg |-> FALSE, m |-> 0, e |-> 0]

Inf(neg) == [k |-> "inf", neg |-> neg, m |-> 0, e |-> 0]

RECURSIVE Normalise(_, _, _)
Normalise(neg, m, e) ==
    IF e > 0 /\ m % 10 = 0 THEN Normalise(neg, m \div 10, e - 1)
    ELSE [k |-> "float", neg |-> neg, m |-> m, e |-> e]

\* A failed conversion: Python raises ValueError.
Failed == [ok |-> FALSE, val |-> None]

Parsed(v) == [ok |-> TRUE, val |-> v]

\* float(s): surrounding whitespace, a sign, then nan / inf / infinity in
\* any case, or decimal digits with at most one point and at least one
\* digit.  (Exponents and digit-group underscores are not modelled; no
\* text of the model uses them.)
ParseFloat(s) ==
    LET t    == Strip(s)
        sgn  == Len(t) > 0 /\ Ch(t, 1) \in {"-", "+"}
        neg  == Len(t) > 0 /\ Ch(t, 1) = "-"
        body == IF sgn THEN Tail(t) ELSE t
        low  == Lower(body)
        dot  == Find(body, ".", 1)
        ip   == IF dot = 0 THEN body ELSE SubSeq(body, 1, dot - 1)
        fp   == IF dot = 0 THEN "" ELSE SubSeq(body, dot + 1, Len(body))
    IN  IF Len(body) = 3 /\ low = "nan" THEN Parsed(NaN)
        ELSE IF Len(body) \in {3, 8} /\ low \in {"inf", "infinity"}
        THEN Parsed(Inf(neg))
        ELSE IF AllDigits(ip) /\ AllDigits(fp) /\ Len(ip) + Len(fp) > 0
        THEN Parsed(Normalise(neg, ToNat(ip \o fp), Len(fp)))
        ELSE Failed

\* f"{value}" of a float: repr().  (Values of the model stay inside
\* 1e-4 .. 1e16, where repr() prints positional notation.)
FormatFloat(v) ==
    LET sign == IF v.neg THEN "-" ELSE "" IN
    CASE v.k = "nan" -> "nan"
      [] v.k = "inf" -> sign \o "inf"
      [] OTHER ->
           sign \o NatStr(v.m \div Pow10(v.e)) \o "."
                \o (IF v.e = 0 THEN "0" ELSE ZeroPad(v.m % Pow10(v.e), v.e))

\* value * scale, for the whole-number scales of the model.
MulScale(v, factor) ==
    IF v.k = "float" THEN Normalise(v.neg, v.m * factor, v.e) ELSE v

-----------------------------------------------------------------------------
(* Insertion-ordered dictionaries (dict, OrderedDict): a sequence of       *)
(* <<key, value>> pairs with distinct keys.                                *)

DictKeys(d) == [k \in 1..Len(d) |-> d[k][1]]

DictHas(d, key) == \E k \in 1..Len(d) : d[k][1] = key

DictGet(d, key) == d[CHOOSE k \in 1..Len(d) : d[k][1] = key][2]

\* A variant of DictSet: every assignment appends a pair.
DictSetAppends(d, key, value) == Append(d, <<key, value>>)

\* d[key] = value: a present key keeps its position and takes the new
\* value, a new key is appended.
DictSet(d, key, value) ==
    IF DictHas(d, key)
    THEN [k \in 1..Len(d) |-> IF d[k][1] = key THEN <<key, value>> ELSE d[k]]
    ELSE Append(d, <<key, value>>)

\* Character order of the characters of a timestamp.
CharRank(c) ==
    CASE c = " " -> 32 [] c = "/" -> 47 [] c = ":" -> 58
      [] IsDigit(c) -> 48 + DigitVal(c) [] OTHER -> 0

RECURSIVE StrLess(_, _)
StrLess(a, b) ==
    IF Len(b) = 0 THEN FALSE
    ELSE IF Len(a) = 0 THEN TRUE
    ELSE IF Ch(a, 1) = Ch(b, 1) THEN StrLess(Tail(a), Tail(b))
    ELSE CharRank(Ch(a, 1)) < CharRank(Ch(b, 1))

RECURSIVE SortedItems(_)
SortedItems(d) ==
    IF Len(d) = 0 THEN <<>>
    ELSE LET least == CHOOSE k \in 1..Len(d) :
                          \A j \in 1..Len(d) : ~StrLess(d[j][1], d[k][1])
         IN  <<d[least]>>
                 \o SortedItems(SubSeq(d, 1, least - 1) \o SubSeq(d, least + 1, Len(d)))

\* TimeSeriesData(): self.data = OrderedDict()
TimeSeriesData == <<>>

\* A variant of add_point: the point is appended whether or not the
\* timestamp is present.
add_pointAppends(data, timestamp, value) == DictSetAppends(data, timestamp, value)

\* TimeSeriesData.add_point: self.data[timestamp] = value
add_point(data, timestamp, value) == DictSet(data, timestamp, value)

\* TimeSeriesData.__len__
len(data) == Len(data)

\* A variant of __iter__: the items in timestamp order.
iterSorted(data) == SortedItems(data)

\* TimeSeriesData.__iter__: iter(self.data.items())
iter(data) == data

-----
(* Timestamps.                                                             *)

\* re.compile(r'\d{2}/\d{2}/\d{4} \d{2}:\d{2}:\d{2}'), one item per
\* character the pattern consumes.
TIMESTAMP_PATTERN ==
    <<"\\d", "\\d", "/", "\\d", "\\d", "/", "\\d", "\\d", "\\d", "\\d", " ",
      "\\d", "\\d", ":", "\\d", "\\d", ":", "\\d", "\\d">>

MatchItem(item, c) == IF item = "\\d" THEN IsDigit(c) ELSE c = item

\* pattern.fullmatch(s) is not None
FullMatch(pattern, s) ==
    /\ Len(s) = Len(pattern)
    /\ \A k \in 1..Len(pattern) : MatchItem(pattern[k], Ch(s, k))

IsLeap(year) == (year % 4 = 0 /\ year % 100 # 0) \/ year % 400 = 0

DaysInMonth(year, month) ==
    IF month = 2 THEN (IF IsLeap(year) THEN 29 ELSE 28)
    ELSE IF month \in {4, 6, 9, 11} THEN 30 ELSE 31

\* A one- or two-digit field of strptime with value in lo..hi.
Field(s, lo, hi) ==
    /\ Len(s) \in {1, 2}
    /\ AllDigits(s)
    /\ ToNat(s) >= lo
    /\ ToNat(s) <= hi

NoDatetime ==
    [year |-> 0, month |-> 0, day |-> 0, hour |-> 0, minute |-> 0, second |-> 0]

\* A variant of StrpTime: the format is taken as "%d/%m/%Y %H:%M:%S".
StrpTimeDayFirst(ts) ==
    LET halves == Split(ts, " ")
        date   == Split(halves[1], "/")
        time   == Split(halves[2], ":")
    IN  IF /\ Len(halves) = 2
           /\ Len(date) = 3
           /\ Len(time) = 3
           /\ Field(date[2], 1, 12)
           /\ Field(date[1], 1, 31)
           /\ Len(date[3]) = 4 /\ AllDigits(date[3])
           /\ Field(time[1], 0, 23)
           /\ Field(time[2], 0, 59)
           /\ Field(time[3], 0, 59)
           /\ ToNat(date[3]) >= 1
           /\ ToNat(date[1]) <= DaysInMonth(ToNat(date[3]), ToNat(date[2]))
        THEN [ok |-> TRUE,
              val |-> [year |-> ToNat(date[3]), month |-> ToNat(date[2]),
                       day |-> ToNat(date[1]), hour |-> ToNat(time[1]),
                       minute |-> ToNat(time[2]), second |-> ToNat(time[3])]]
        ELSE [ok |-> FALSE, val |-> NoDatetime]

\* datetime.strptime(ts, "%m/%d/%Y %H:%M:%S"): [ok, val]; not ok is the
\* ValueError of a text that does not match the format or names no
\* calendar date-time.  (The format's blank is taken as one blank.)
StrpTime(ts) ==
    LET halves == Split(ts, " ")
        date   == Split(halves[1], "/")
        time   == Split(halves[2], ":")
    IN  IF /\ Len(halves) = 2
           /\ Len(date) = 3
           /\ Len(time) = 3
           /\ Field(date[1], 1, 12)
           /\ Field(date[2], 1, 31)
           /\ Len(date[3]) = 4 /\ AllDigits(date[3])
           /\ Field(time[1], 0, 23)
           /\ Field(time[2], 0, 59)
           /\ Field(time[3], 0, 61)
           /\ ToNat(date[3]) >= 1
           /\ ToNat(date[2]) <= DaysInMonth(ToNat(date[3]), ToNat(date[1]))
           /\ ToNat(time[3]) <= 59
        THEN [ok |-> TRUE,
              val |-> [year |-> ToNat(date[3]), month |-> ToNat(date[1]),
                       day |-> ToNat(date[2]), hour |-> ToNat(time[1]),
                       minute |-> ToNat(time[2]), second |-> ToNat(time[3])]]
        ELSE [ok |-> FALSE, val |-> NoDatetime]

-----------------------------------------------------------------------------
(* The per-row work of the extractors.                                     *)

\* A variant of Dequote: one pair of enclosing quotes is removed when the
\* cell has one.
DequoteOnePair(cell) ==
    IF Len(cell) >= 2 /\ Ch(cell, 1) = "\"" /\ Ch(cell, Len(cell)) = "\""
    THEN SubSeq(cell, 2, Len(cell) - 1)
    ELSE cell

\* cell.strip('"')
Dequote(cell) == StripChars(cell, {"\""})

\* A variant of CellValue: the index is taken as one-based.
CellValueOffByOne(row, index) ==
    IF index >= 1 /\ index <= Len(row)
    THEN LET r == ParseFloat(row[index]) IN IF r.ok THEN r.val ELSE None
    ELSE None

\* try: float(row[index]) except (IndexError, ValueError): None.
\* row[index] is Python indexing: 0 <= index < len(row) is the cell at that
\* position, -len(row) <= index < 0 counts from the end, anything else
\* raises IndexError.
CellValue(row, index) ==
    IF index >= 0 /\ index < Len(row)
    THEN LET r == ParseFloat(row[index + 1]) IN IF r.ok THEN r.val ELSE None
    ELSE IF index < 0 /\ index >= 0 - Len(row)
    THEN LET r == ParseFloat(row[Len(row) + index + 1]) IN
         IF r.ok THEN r.val ELSE None
    ELSE None

\* extract_column_data, the body of "for row in reader": the cells are
\* scanned from cell k on; the first one that is a timestamp adds the
\* point and ends the scan (break).
RECURSIVE ScanRow(_, _, _, _)
ScanRow(data, row, k, index) ==
    IF k > Len(row) THEN data
    ELSE LET cell_clean == Dequote(row[k]) IN
         IF FullMatch(TIMESTAMP_PATTERN, cell_clean)
         THEN add_point(data, cell_clean, CellValue(row, index))
         ELSE ScanRow(data, row, k + 1, index)

\* extract_multiple_columns, the timestamp search of a row: the first cell
\* from cell k on that is a timestamp, "" (None) when there is none.
RECURSIVE FindTimestamp(_, _)
FindTimestamp(row, k) ==
    IF k > Len(row) THEN ""
    ELSE LET cell_clean == Dequote(row[k]) IN
         IF FullMatch(TIMESTAMP_PATTERN, cell_clean) THEN cell_clean
         ELSE FindTimestamp(row, k + 1)

\* extract_multiple_columns, "for col_idx in column_indices" from the k-th
\* requested index on.
RECURSIVE AddColumns(_, _, _, _, _)
AddColumns(map, row, timestamp, indices, k) ==
    IF k > Len(indices) THEN map
    ELSE LET col_idx == indices[k]
             series  == add_point(DictGet(map, col_idx), timestamp,
                                  CellValue(row, col_idx))
         IN  AddColumns(DictSet(map, col_idx, series), row, timestamp,
                        indices, k + 1)

\* A variant of ScanRowMulti: the timestamp is looked for in the first
\* cell only.
ScanRowMultiFirstCell(map, row, indices) ==
    IF Len(row) > 0 /\ FullMatch(TIMESTAMP_PATTERN, Dequote(row[1]))
    THEN AddColumns(map, row, Dequote(row[1]), indices, 1)
    ELSE map

\* extract_multiple_columns, the body of "for row in reader".
ScanRowMulti(map, row, indices) ==
    LET timestamp == FindTimestamp(row, 1) IN
    IF timestamp # "" THEN AddColumns(map, row, timestamp, indices, 1)
    ELSE map

\* {idx: TimeSeriesData() for idx in column_indices}
RECURSIVE NewSeriesMap(_, _)
NewSeriesMap(indices, k) ==
    IF k > Len(indices) THEN <<>>
    ELSE LET rest == NewSeriesMap(indices, k + 1) IN
         <<(<<indices[k], TimeSeriesData>>)>>
             \o SelectSeq(rest, LAMBDA p : p[1] # indices[k])

-----------------------------------------------------------------------------
(* parse_csv_header: one header cell.                                      *)

\* ColumnMetadata(i, host, category, counter, col)
ColumnMetadata(index, host, category, counter, original) ==
    [index |-> index, host |-> host, category |-> category,
     counter |-> counter, original |-> original]

\* A variant of ParseColumn: the counter is the segment after the
\* category alone.
ParseColumnOneSegmentCounter(i, col) ==
    IF StartsWith(col, "\\\\")
    THEN LET parts == SubSeq(Split(col, "\\"), 3, Len(Split(col, "\\"))) IN
         IF Len(parts) >= 2
         THEN ColumnMetadata(i, parts[1], parts[2],
                             IF Len(parts) > 2 THEN parts[3] ELSE "", col)
         ELSE ColumnMetadata(i, "", "", "", col)
    ELSE ColumnMetadata(i, "", "", "", col)

\* parser.py lines 110-122: the cell text col (already dequoted) at raw
\* position i.
ParseColumn(i, col) ==
    IF StartsWith(col, "\\\\")
    THEN LET parts == SubSeq(Split(col, "\\"), 3, Len(Split(col, "\\"))) IN
         IF Len(parts) >= 2
         THEN ColumnMetadata(i, Split(col, "\\")[3], parts[2],
                             IF Len(parts) > 2
                             THEN Join(SubSeq(parts, 3, Len(parts)), "\\")
                             ELSE "",
                             col)
         ELSE ColumnMetadata(i, "", "", "", col)
    ELSE ColumnMetadata(i, "", "", "", col)

\* col.startswith("(PDH-CSV"): the cell is skipped (continue).
IsPdhMarker(col) == StartsWith(col, "(PDH-CSV")

\* A variant of HeaderCell: the records are numbered as they are emitted.
HeaderCellRenumbers(cols, i, cell) ==
    LET col == Dequote(cell) IN
    IF IsPdhMarker(col) THEN cols ELSE Append(cols, ParseColumn(Len(cols), col))

\* parser.py lines 103-122, one iteration of "for i, col in enumerate(header)".
HeaderCell(cols, i, cell) ==
    LET col == Dequote(cell) IN
    IF IsPdhMarker(col) THEN cols ELSE Append(cols, ParseColumn(i, col))

-----------------------------------------------------------------------------
(* save_time_series and load_data_file: one line.                          *)

\* A variant of FormatLine: a missing value is written as nan.
FormatLineLowercase(point) ==
    IF point[2] # None
    THEN point[1] \o ": " \o FormatFloat(point[2]) \o "\n"
    ELSE point[1] \o ": nan\n"

\* f"{timestamp}: {value}\n" / f"{timestamp}: NaN\n"
FormatLine(point) ==
    IF point[2] # None
    THEN point[1] \o ": " \o FormatFloat(point[2]) \o "\n"
    ELSE point[1] \o ": NaN\n"

\* A variant of ParseLine: the first two parts of a line are taken and
\* further parts ignored.
ParseLineFirstTwoParts(line, factor) ==
    LET parts == Split(Strip(line), ": ")
        dt    == StrpTime(parts[1])
        val   == ParseFloat(parts[2])
    IN  IF Len(parts) < 2 \/ ~dt.ok \/ ~val.ok
        THEN [ok |-> FALSE, dt |-> NoDatetime, val |-> None]
        ELSE [ok |-> TRUE, dt |-> dt.val, val |-> MulScale(val.val, factor)]

\* visualizer.py lines 41-49: [ok, dt, val]; not ok is the ValueError (of
\* the unpacking, of strptime or of float) that the loop catches.
ParseLine(line, factor) ==
    LET parts == Split(Strip(line), ": ")
        dt    == StrpTime(parts[1])
        val   == ParseFloat(parts[2])
    IN  IF Len(parts) # 2 THEN [ok |-> FALSE, dt |-> NoDatetime, val |-> None]
        ELSE IF ~dt.ok THEN [ok |-> FALSE, dt |-> NoDatetime, val |-> None]
        ELSE IF ~val.ok THEN [ok |-> FALSE, dt |-> NoDatetime, val |-> None]
        ELSE [ok |-> TRUE, dt |-> dt.val, val |-> MulScale(val.val, factor)]

-----------------------------------------------------------------------------
(* The operations.  One call runs at a time (the core is single-threaded); *)
(* outcome[op] is "notcalled", "running", "returned" or the exception the  *)
(* call raised.                                                            *)

Ops == {"parse_csv_header", "extract_column_data", "extract_multiple_columns",
        "save_time_series", "load_data_file"}

Idle == \A op \in Ops : outcome[op] # "running"

\* The call of op has ended, by a return or by an exception.
Ended(op) == outcome[op] \notin {"notcalled", "running"}

NoFile == [exists |-> FALSE, content |-> <<>>]

File(content) == [exists |-> TRUE, content |-> content]

\* A variant of OpenOutcome: the missing file is reported as ValueError.
OpenOutcomeValueError(file) == IF file.exists THEN "running" ELSE "ValueError"

\* open(path): the call goes on with the file open, or raises
\* FileNotFoundError, which the handler of each function re-raises as
\* FileNotFoundError.
OpenOutcome(file) == IF file.exists THEN "running" ELSE "FileNotFoundError"

CsvOps == {"parse_csv_header", "extract_column_data", "extract_multiple_columns"}

NoFault == [kind |-> "none", at |-> 0]

\* open() of an existing source fails.
PermissionFault == [kind |-> "PermissionError", at |-> 0]

\* The fetch of the k-th row from the reader fails: the decoder meets
\* bytes that are not UTF-8.
DecodeFault(k) == [kind |-> "UnicodeDecodeError", at |-> k]

\* A variant of ExceptException: the exception propagates as it is.
ExceptExceptionReraises(e) == e

\* except Exception as e: raise ValueError(f"...: {e}")
ExceptException(e) == "ValueError"

\* with open(filename, newline='', encoding='utf-8-sig') as csvfile, and
\* the handlers of the exception open() raises: [outcome, cause].
OpenSource ==
    IF OpenOutcome(csvfile) # "running"
    THEN [outcome |-> OpenOutcome(csvfile), cause |-> "FileNotFoundError"]
    ELSE IF fault.kind = "PermissionError"
    THEN [outcome |-> ExceptException("PermissionError"),
          cause |-> "PermissionError"]
    ELSE [outcome |-> "running", cause |-> ""]

\* The fetch of the k-th row raises.
FetchFailsAt(k) == fault.kind = "UnicodeDecodeError" /\ fault.at = k

\* The fetch of the next row raises.
FetchFails == FetchFailsAt(cursor + 1)

NoHandle == [opens |-> 0, open |-> FALSE, reads |-> <<>>]

\* open() has been called; the handle is held when it succeeded.
Opened(h, held) == [opens |-> h.opens + 1, open |-> held, reads |-> <<>>]

\* The reader has yielded row k.
Fetched(h, k) == [h EXCEPT !.reads = Append(@, k)]

\* A variant of Closed: the handle stays open.
ClosedNot(h) == h

\* The with block is left, by its end or by an exception.
Closed(h) == [h EXCEPT !.open = FALSE]

\* extract_column_data, lines 72-76 and the handler of line 95: the series
\* is created and the source opened.
ExtractColumnData_Call(i) ==
    /\ Idle
    /\ outcome["extract_column_data"] = "notcalled"
    /\ column_index' = i
    /\ time_series' = TimeSeriesData
    /\ cursor' = 0
    /\ outcome' = [outcome EXCEPT !["extract_column_data"] =
                      OpenSource.outcome]
    /\ raised' = [raised EXCEPT !["extract_column_data"] = OpenSource.cause]
    /\ handle' = [handle EXCEPT !["extract_column_data"] =
                     Opened(@, OpenSource.outcome = "running")]
    /\ UNCHANGED around
    /\ UNCHANGED <<csvfile, datafile, column_indices, time_series_map, columns,
                   scale, timestamps, values, skipped, stderr, fault>>
    /\ UNCHANGED side

\* extract_column_data, lines 78-91: the next row.
ExtractColumnData_Row ==
    /\ outcome["extract_column_data"] = "running"
    /\ cursor < Len(csvfile.content)
    /\ IF FetchFails
       THEN /\ outcome' = [outcome EXCEPT !["extract_column_data"] =
                              ExceptException(fault.kind)]
            /\ raised' = [raised EXCEPT !["extract_column_data"] = fault.kind]
            /\ handle' = [handle EXCEPT !["extract_column_data"] = Closed(@)]
            /\ UNCHANGED <<time_series, cursor>>
       ELSE /\ time_series' = ScanRow(time_series,
                                      csvfile.content[cursor + 1], 1,
                                      column_index)
            /\ cursor' = cursor + 1
            /\ handle' = [handle EXCEPT !["extract_column_data"] =
                             Fetched(@, cursor + 1)]
            /\ UNCHANGED <<outcome, raised>>
    /\ UNCHANGED around
    /\ UNCHANGED <<csvfile, datafile, column_index, column_indices,
                   time_series_map, columns, scale, timestamps, values,
                   skipped, stderr, fault>>
    /\ UNCHANGED side

\* extract_column_data, line 93.
ExtractColumnData_Return ==
    /\ outcome["extract_column_data"] = "running"
    /\ cursor = Len(csvfile.content)
    /\ outcome' = [outcome EXCEPT !["extract_column_data"] = "returned"]
    /\ handle' = [handle EXCEPT !["extract_column_data"] = Closed(@)]
    /\ UNCHANGED around
    /\ UNCHANGED <<csvfile, datafile, cursor, column_index, column_indices,
                   time_series, time_series_map, columns, scale, timestamps,
                   values, skipped, stderr, fault, raised>>
    /\ UNCHANGED side

\* extract_multiple_columns, lines 214-218 and the handler of line 240.
ExtractMultipleColumns_Call(indices) ==
    /\ Idle
    /\ outcome["extract_multiple_columns"] = "notcalled"
    /\ column_indices' = indices
    /\ time_series_map' = NewSeriesMap(indices, 1)
    /\ cursor' = 0
    /\ outcome' = [outcome EXCEPT !["extract_multiple_columns"] =
                      OpenSource.outcome]
    /\ raised' = [raised EXCEPT !["extract_multiple_columns"] =
                     OpenSource.cause]
    /\ handle' = [handle EXCEPT !["extract_multiple_columns"] =
                     Opened(@, OpenSource.outcome = "running")]
    /\ UNCHANGED around
    /\ UNCHANGED <<csvfile, datafile, column_index, time_series, columns,
                   scale, timestamps, values, skipped, stderr, fault>>
    /\ UNCHANGED side

\* extract_multiple_columns, lines 220-236: the next row.
ExtractMultipleColumns_Row ==
    /\ outcome["extract_multiple_columns"] = "running"
    /\ cursor < Len(csvfile.content)
    /\ IF FetchFails
       THEN /\ outcome' = [outcome EXCEPT !["extract_multiple_columns"] =
                              ExceptException(fault.kind)]
            /\ raised' = [raised EXCEPT !["extract_multiple_columns"] =
                             fault.kind]
            /\ handle' = [handle EXCEPT !["extract_multiple_columns"] =
                             Closed(@)]
            /\ UNCHANGED <<time_series_map, cursor>>
       ELSE /\ time_series_map' = ScanRowMulti(time_series_map,
                                               csvfile.content[cursor + 1],
                                               column_indices)
            /\ cursor' = cursor + 1
            /\ handle' = [handle EXCEPT !["extract_multiple_columns"] =
                             Fetched(@, cursor + 1)]
            /\ UNCHANGED <<outcome, raised>>
    /\ UNCHANGED around
    /\ UNCHANGED <<csvfile, datafile, column_index, column_indices,
                   time_series, columns, scale, timestamps, values, skipped,
                   stderr, fault>>
    /\ UNCHANGED side

\* extract_multiple_columns, line 238.
ExtractMultipleColumns_Return ==
    /\ outcome["extract_multiple_columns"] = "running"
    /\ cursor = Len(csvfile.content)
    /\ outcome' = [outcome EXCEPT !["extract_multiple_columns"] = "returned"]
    /\ handle' = [handle EXCEPT !["extract_multiple_columns"] = Closed(@)]
    /\ UNCHANGED around
    /\ UNCHANGED <<csvfile, datafile, cursor, column_index, column_indices,
                   time_series, time_series_map, columns, scale, timestamps,
                   values, skipped, stderr, fault, raised>>
    /\ UNCHANGED side

\* parse_csv_header, lines 96-101 and the handlers of lines 126-129: the
\* source is opened and its first row read; next(reader) on a source with
\* no row raises StopIteration, which line 128 turns into ValueError, as
\* it does the exception of a first row that cannot be decoded.
ParseCsvHeader_Call ==
    /\ Idle
    /\ outcome["parse_csv_header"] = "notcalled"
    /\ columns' = <<>>
    /\ cursor' = 0
    /\ LET cause == IF OpenSource.outcome # "running" THEN OpenSource.cause
                    ELSE IF Len(csvfile.content) = 0 THEN "StopIteration"
                    ELSE IF FetchFailsAt(1) THEN fault.kind
                    ELSE ""
           next  == IF OpenSource.outcome # "running" THEN OpenSource.outcome
                    ELSE IF cause # "" THEN ExceptException(cause)
                    ELSE "running"
       IN  /\ outcome' = [outcome EXCEPT !["parse_csv_header"] = next]
           /\ raised' = [raised EXCEPT !["parse_csv_header"] = cause]
           /\ handle' = [handle EXCEPT !["parse_csv_header"] =
                            IF next = "running"
                            THEN Fetched(Opened(@, TRUE), 1)
                            ELSE Opened(@, FALSE)]
    /\ UNCHANGED around
    /\ UNCHANGED <<csvfile, datafile, column_index, column_indices,
                   time_series, time_series_map, scale, timestamps, values,
                   skipped, stderr, fault>>
    /\ UNCHANGED side

\* parse_csv_header, lines 103-122: the next header cell.
ParseCsvHeader_Cell ==
    /\ outcome["parse_csv_header"] = "running"
    /\ cursor < Len(csvfile.content[1])
    /\ columns' = HeaderCell(columns, cursor, csvfile.content[1][cursor + 1])
    /\ cursor' = cursor + 1
    /\ UNCHANGED around
    /\ UNCHANGED <<csvfile, datafile, outcome, column_index, column_indices,
                   time_series, time_series_map, scale, timestamps, values,
                   skipped, stderr>>
    /\ UNCHANGED source
    /\ UNCHANGED side

\* parse_csv_header, line 124.
ParseCsvHeader_Return ==
    /\ outcome["parse_csv_header"] = "running"
    /\ cursor = Len(csvfile.content[1])
    /\ outcome' = [outcome EXCEPT !["parse_csv_header"] = "returned"]
    /\ handle' = [handle EXCEPT !["parse_csv_header"] = Closed(@)]
    /\ UNCHANGED around
    /\ UNCHANGED <<csvfile, datafile, cursor, column_index, column_indices,
                   time_series, time_series_map, columns, scale, timestamps,
                   values, skipped, stderr, fault, raised>>
    /\ UNCHANGED side

\* TimeSeriesData.add_point called by the owner of the series, before the
\* series is saved.
AddPoint(timestamp, value) ==
    /\ Idle
    /\ outcome["save_time_series"] = "notcalled"
    /\ outcome["load_data_file"] = "notcalled"
    /\ time_series' = add_point(time_series, timestamp, value)
    /\ UNCHANGED around
    /\ UNCHANGED <<csvfile, datafile, outcome, cursor, column_index,
                   column_indices, time_series_map, columns, scale,
                   timestamps, values, skipped, stderr>>
    /\ UNCHANGED source
    /\ UNCHANGED side

\* save_time_series, lines 115-120: the writes, one per point of the
\* iteration.
SavedLines(series) ==
    [k \in 1..Len(iter(series)) |-> FormatLine(iter(series)[k])]

\* save_time_series(time_series, datafile): open(output_file, 'w') creates
\* or truncates the file, then one write per point of the iteration.
SaveTimeSeries ==
    /\ Idle
    /\ outcome["save_time_series"] = "notcalled"
    /\ outcome["load_data_file"] = "notcalled"
    /\ datafile' = File(SavedLines(time_series))
    /\ outcome' = [outcome EXCEPT !["save_time_series"] = "returned"]
    /\ UNCHANGED around
    /\ UNCHANGED <<csvfile, cursor, column_index, column_indices, time_series,
                   time_series_map, columns, scale, timestamps, values,
                   skipped, stderr>>
    /\ UNCHANGED source
    /\ UNCHANGED side

\* load_data_file, lines 34-39 and the handler of line 59.
LoadDataFile_Call(factor) ==
    /\ Idle
    /\ outcome["load_data_file"] = "notcalled"
    /\ scale' = factor
    /\ timestamps' = <<>>
    /\ values' = <<>>
    /\ skipped' = 0
    /\ cursor' = 0
    /\ outcome' = [outcome EXCEPT !["load_data_file"] =
                      OpenOutcome(datafile)]
    /\ UNCHANGED around
    /\ UNCHANGED <<csvfile, datafile, column_index, column_indices,
                   time_series, time_series_map, columns, stderr>>
    /\ UNCHANGED source
    /\ UNCHANGED side

\* load_data_file, lines 40-49: the next line.
LoadDataFile_Line ==
    /\ outcome["load_data_file"] = "running"
    /\ cursor < Len(datafile.content)
    /\ LET r == ParseLine(datafile.content[cursor + 1], scale) IN
       IF r.ok
       THEN /\ timestamps' = Append(timestamps, r.dt)
            /\ values' = Append(values, r.val)
            /\ skipped' = skipped
       ELSE /\ skipped' = skipped + 1
            /\ UNCHANGED <<timestamps, values>>
    /\ cursor' = cursor + 1
    /\ UNCHANGED around
    /\ UNCHANGED <<csvfile, datafile, outcome, column_index, column_indices,
                   time_series, time_series_map, columns, scale, stderr>>
    /\ UNCHANGED source
    /\ UNCHANGED side

\* load_data_file, lines 51-57: the warning, then ValueError for an empty
\* result or the return.
LoadDataFile_Finish ==
    /\ outcome["load_data_file"] = "running"
    /\ cursor = Len(datafile.content)
    /\ stderr' = IF skipped > 0 THEN Append(stderr, skipped) ELSE stderr
    /\ outcome' = [outcome EXCEPT !["load_data_file"] =
                      IF Len(timestamps) = 0 THEN "ValueError" ELSE "returned"]
    /\ UNCHANGED around
    /\ UNCHANGED <<csvfile, datafile, cursor, column_index, column_indices,
                   time_series, time_series_map, columns, scale, timestamps,
                   values, skipped>>
    /\ UNCHANGED source
    /\ UNCHANGED side

-----------------------------------------------------------------------------
(* The output directory, extract_and_save and extract_and_save_batch.  A   *)
(* file of the directory is the sequence of the writes that made it.       *)

NoFiles == <<>>

\* None where a str is optional (an output path, a title): a text that
\* no path and no title of the inputs equals.
NoneStr == "<None>"

\* open(path, 'w') and the writes: the file is created or replaced.
Write(files, path, content) ==
    [q \in (DOMAIN files) \cup {path} |->
        IF q = path THEN content ELSE files[q]]

\* s.rfind(c) + 1: the last position of the character, 0 when absent.
RECURSIVE RFind(_, _, _)
RFind(s, c, i) ==
    IF i = 0 THEN 0
    ELSE IF Ch(s, i) = c THEN i
    ELSE RFind(s, c, i - 1)

\* os.path.splitext(path)[0]: the extension starts at the last dot of the
\* last component, unless only dots precede it in that component.
SplitextRoot(path) ==
    LET sep == RFind(path, "/", Len(path))
        dot == RFind(path, ".", Len(path))
    IN  IF dot > sep /\ \E k \in (sep + 1)..(dot - 1) : Ch(path, k) # "."
        THEN SubSeq(path, 1, dot - 1)
        ELSE path

\* save_metadata, lines 138-139: the companion file of a series file.
MetaFile(output_file) == SplitextRoot(output_file) \o ".meta"

\* save_metadata(column_title, output_file)
save_metadata(files, column_title, output_file) ==
    Write(files, MetaFile(output_file), <<column_title>>)

\* os.path.join(output_dir, name)
PathJoin(dir, name) ==
    IF dir = "" THEN name
    ELSE IF Ch(dir, Len(dir)) = "/" THEN dir \o name
    ELSE dir \o "/" \o name

\* f"col_{column_index}.data"
DefaultOutput(index) == "col_" \o IntStr(index) \o ".data"

\* The exceptions an extraction ends with.
Errors == {"FileNotFoundError", "ValueError"}

\* A variant of AfterExtraction: what the scan collected before it failed
\* is saved before the exception propagates.
AfterExtractionSavesPartial(files, out, series, output_file) ==
    Write(files, output_file, SavedLines(series))

\* extract_and_save, lines 176-177: the series extract_column_data
\* returned is saved; its exception leaves line 177 unreached.
AfterExtraction(files, out, series, output_file) ==
    IF out = "returned" THEN Write(files, output_file, SavedLines(series))
    ELSE files

\* extract_and_save, lines 173-176: the default output path, then the
\* call of extract_column_data.
ExtractAndSave_Call(index, output_file, column_title) ==
    /\ Idle
    /\ job.stage = "notcalled"
    /\ outcome["extract_column_data"] = "notcalled"
    /\ job' = [fn |-> "extract_and_save", stage |-> "extracting",
               column_index |-> index,
               output_file |-> IF output_file = NoneStr
                               THEN DefaultOutput(index) ELSE output_file,
               column_title |-> column_title]
    /\ UNCHANGED around
    /\ UNCHANGED <<csvfile, datafile, outcome, cursor, column_index,
                   column_indices, time_series, time_series_map, columns,
                   scale, timestamps, values, skipped, stderr, fs, result>>
    /\ UNCHANGED source

\* extract_and_save, lines 176-177: extract_column_data has ended; its
\* exception propagates, its series is saved.
ExtractAndSave_Save ==
    /\ job.stage = "extracting"
    /\ job.fn = "extract_and_save"
    /\ Ended("extract_column_data")
    /\ fs' = AfterExtraction(fs, outcome["extract_column_data"], time_series,
                             job.output_file)
    /\ job' = [job EXCEPT !.stage =
                  IF outcome["extract_column_data"] = "returned"
                  THEN "saved" ELSE outcome["extract_column_data"]]
    /\ UNCHANGED around
    /\ UNCHANGED <<csvfile, datafile, outcome, cursor, column_index,
                   column_indices, time_series, time_series_map, columns,
                   scale, timestamps, values, skipped, stderr, result>>
    /\ UNCHANGED source

\* extract_and_save, lines 180-183: the metadata when a title is given,
\* and the return of the output path.
ExtractAndSave_Return ==
    /\ job.stage = "saved"
    /\ job.fn = "extract_and_save"
    /\ fs' = IF job.column_title \notin {NoneStr, ""}
             THEN save_metadata(fs, job.column_title, job.output_file)
             ELSE fs
    /\ job' = [job EXCEPT !.stage = "returned"]
    /\ result' = [fn |-> "extract_and_save", value |-> job.output_file]
    /\ UNCHANGED around
    /\ UNCHANGED <<csvfile, datafile, outcome, cursor, column_index,
                   column_indices, time_series, time_series_map, columns,
                   scale, timestamps, values, skipped, stderr>>
    /\ UNCHANGED source

\* column_titles[col_idx], None when the dict is None or lacks the key.
TitleOf(column_titles, col_idx) ==
    IF DictHas(column_titles, col_idx) THEN DictGet(column_titles, col_idx)
    ELSE NoneStr

\* extract_and_save_batch, line 279: the call of extract_multiple_columns.
ExtractAndSaveBatch_Call(indices, output_dir, column_titles) ==
    /\ Idle
    /\ job.stage = "notcalled"
    /\ outcome["extract_multiple_columns"] = "notcalled"
    /\ job' = [fn |-> "extract_and_save_batch", stage |-> "extracting",
               column_indices |-> indices, output_dir |-> output_dir,
               column_titles |-> column_titles, output_files |-> <<>>]
    /\ UNCHANGED around
    /\ UNCHANGED <<csvfile, datafile, outcome, cursor, column_index,
                   column_indices, time_series, time_series_map, columns,
                   scale, timestamps, values, skipped, stderr, fs, result>>
    /\ UNCHANGED source

\* extract_and_save_batch, lines 279-282: extract_multiple_columns has
\* ended; its exception propagates.
ExtractAndSaveBatch_Extracted ==
    /\ job.stage = "extracting"
    /\ job.fn = "extract_and_save_batch"
    /\ Ended("extract_multiple_columns")
    /\ job' = [job EXCEPT !.stage =
                  IF outcome["extract_multiple_columns"] = "returned"
                  THEN "saving" ELSE outcome["extract_multiple_columns"]]
    /\ UNCHANGED around
    /\ UNCHANGED <<csvfile, datafile, outcome, cursor, column_index,
                   column_indices, time_series, time_series_map, columns,
                   scale, timestamps, values, skipped, stderr, fs, result>>
    /\ UNCHANGED source

\* extract_and_save_batch, lines 283-290: the next item of results.
ExtractAndSaveBatch_Item ==
    /\ job.stage = "saving"
    /\ Len(job.output_files) < Len(time_series_map)
    /\ LET item        == time_series_map[Len(job.output_files) + 1]
           output_file == PathJoin(job.output_dir, DefaultOutput(item[1]))
           saved       == Write(fs, output_file, SavedLines(item[2]))
       IN  /\ fs' = IF DictHas(job.column_titles, item[1])
                    THEN save_metadata(saved,
                                       TitleOf(job.column_titles, item[1]),
                                       output_file)
                    ELSE saved
           /\ job' = [job EXCEPT !.output_files = Append(@, output_file)]
    /\ UNCHANGED around
    /\ UNCHANGED <<csvfile, datafile, outcome, cursor, column_index,
                   column_indices, time_series, time_series_map, columns,
                   scale, timestamps, values, skipped, stderr, result>>
    /\ UNCHANGED source

\* extract_and_save_batch, line 292.
ExtractAndSaveBatch_Return ==
    /\ job.stage = "saving"
    /\ Len(job.output_files) = Len(time_series_map)
    /\ job' = [job EXCEPT !.stage = "returned"]
    /\ result' = [fn |-> "extract_and_save_batch", value |-> job.output_files]
    /\ UNCHANGED around
    /\ UNCHANGED <<csvfile, datafile, outcome, cursor, column_index,
                   column_indices, time_series, time_series_map, columns,
                   scale, timestamps, values, skipped, stderr, fs>>
    /\ UNCHANGED source

-----------------------------------------------------------------------------
(* Functions that return a value.  result is the last call: the function,  *)
(* its arguments, the value returned, and how many times in a row the call *)
(* was made with the value of the first of them.                           *)

\* The most calls in a row of one function on the same arguments.
MaxCalls == 2

\* The call of fn on args has returned value.
Returned(fn, args, value) ==
    IF result.fn = fn /\ result.args = args
    THEN [result EXCEPT !.value = value, !.calls = @ + 1]
    ELSE [fn |-> fn, args |-> args, value |-> value, calls |-> 1,
          first |-> value]

NoMatch == [found |-> FALSE, group |-> ""]

\* A variant of SearchVirtualDisk: the group may be empty, as of the
\* pattern Virtual Disk\(([^)]*)\).
RECURSIVE SearchVirtualDiskEmptyGroup(_, _)
SearchVirtualDiskEmptyGroup(category, i) ==
    IF i + 13 > Len(category) THEN NoMatch
    ELSE LET close == Find(category, ")", i + 13) IN
         IF SubSeq(category, i, i + 12) = "Virtual Disk(" /\ close >= i + 13
         THEN [found |-> TRUE, group |-> SubSeq(category, i + 13, close - 1)]
         ELSE SearchVirtualDiskEmptyGroup(category, i + 1)

\* re.search(r'Virtual Disk\(([^)]+)\)', category) from position i on:
\* the leftmost "Virtual Disk(" that is followed by one or more characters
\* other than ")" and then by ")".
RECURSIVE SearchVirtualDisk(_, _)
SearchVirtualDisk(category, i) ==
    IF i + 14 > Len(category) THEN NoMatch
    ELSE LET close == Find(category, ")", i + 13) IN
         IF SubSeq(category, i, i + 12) = "Virtual Disk(" /\ close > i + 13
         THEN [found |-> TRUE, group |-> SubSeq(category, i + 13, close - 1)]
         ELSE SearchVirtualDisk(category, i + 1)

\* substring in text
Contains(text, substring) == Find(text, substring, 1) > 0

\* ColumnMetadata.get_friendly_name
get_friendly_name(self) ==
    LET match == SearchVirtualDisk(self.category, 1) IN
    IF Contains(self.category, "Virtual Disk") /\ match.found
    THEN match.group \o " - " \o self.counter
    ELSE IF self.counter # ""
    THEN self.category \o " - " \o self.counter
    ELSE self.original

\* A caller asks a column for its friendly name.
GetFriendlyName(col) ==
    /\ Idle
    /\ result' = Returned("get_friendly_name", col, get_friendly_name(col))
    /\ UNCHANGED around
    /\ UNCHANGED <<csvfile, datafile, outcome, cursor, column_index,
                   column_indices, time_series, time_series_map, columns,
                   scale, timestamps, values, skipped, stderr, fs, job>>
    /\ UNCHANGED source

\* The lower-case letter of an upper-case letter, and every other
\* character as it is.
FoldCase(c) ==
    LET i == Find("ABCDEFGHIJKLMNOPQRSTUVWXYZ", c, 1) IN
    IF i > 0 THEN Ch("abcdefghijklmnopqrstuvwxyz", i) ELSE c

\* re.IGNORECASE: the pattern character matches the text character.  "."
\* matches every character but the newline.
MatchChar(p, c) == IF p = "." THEN c # "\n" ELSE FoldCase(p) = FoldCase(c)

\* re.match of a pattern made of characters, ".", "x*" and a final "$"
\* at the start of the text.
RECURSIVE MatchHere(_, _)
MatchHere(pattern, text) ==
    IF pattern = "" THEN TRUE
    ELSE IF Len(pattern) >= 2 /\ Ch(pattern, 2) = "*"
    THEN \E n \in 0..Len(text) :
             /\ \A k \in 1..n : MatchChar(Ch(pattern, 1), Ch(text, k))
             /\ MatchHere(SubSeq(pattern, 3, Len(pattern)),
                          SubSeq(text, n + 1, Len(text)))
    ELSE IF pattern = "$" THEN text = "" \/ text = "\n"
    ELSE /\ text # ""
         /\ MatchChar(Ch(pattern, 1), Ch(text, 1))
         /\ MatchHere(Tail(pattern), Tail(text))

\* re.search(pattern, text, re.IGNORECASE) is not None, for the patterns
\* made of characters, ".", "x*", an initial "^" and a final "$".
ReSearch(pattern, text) ==
    IF pattern # "" /\ Ch(pattern, 1) = "^"
    THEN MatchHere(Tail(pattern), text)
    ELSE \E i \in 1..(Len(text) + 1) :
             MatchHere(pattern, SubSeq(text, i, Len(text)))

\* A variant of Passes: a column passes when it satisfies either pattern.
PassesEither(col, category_pattern, counter_pattern) ==
    \/ category_pattern \notin {NoneStr, ""}
          /\ ReSearch(category_pattern, col.category)
    \/ counter_pattern \notin {NoneStr, ""}
          /\ ReSearch(counter_pattern, col.counter)
    \/ category_pattern \in {NoneStr, ""} /\ counter_pattern \in {NoneStr, ""}

\* summarize_columns, lines 202-206: the column is not skipped by the
\* filters.
Passes(col, category_pattern, counter_pattern) ==
    /\ category_pattern \notin {NoneStr, ""}
          => ReSearch(category_pattern, col.category)
    /\ counter_pattern \notin {NoneStr, ""}
          => ReSearch(counter_pattern, col.counter)

\* A variant of Filtered: the patterns are ignored.
FilteredNot(cols, category_pattern, counter_pattern) == cols

\* summarize_columns, lines 199-207.
Filtered(cols, category_pattern, counter_pattern) ==
    SelectSeq(cols, LAMBDA col : Passes(col, category_pattern, counter_pattern))

\* Counter(keys), then dict(): the keys in the order of their first
\* occurrence, each with the number of its occurrences.
RECURSIVE Counter(_, _)
Counter(keys, k) ==
    IF k = 0 THEN <<>>
    ELSE LET d == Counter(keys, k - 1) IN
         IF DictHas(d, keys[k]) THEN DictSet(d, keys[k], DictGet(d, keys[k]) + 1)
         ELSE DictSet(d, keys[k], 1)

\* summarize_columns, lines 210-214: the three tables.
Tables(cols) ==
    LET with_category == SelectSeq(cols, LAMBDA col : col.category # "")
        with_counter  == SelectSeq(cols, LAMBDA col : col.counter # "")
        with_both     == SelectSeq(cols, LAMBDA col :
                                      col.category # "" /\ col.counter # "")
    IN  << Counter([k \in 1..Len(with_category) |->
                       with_category[k].category], Len(with_category)),
           Counter([k \in 1..Len(with_counter) |->
                       with_counter[k].counter], Len(with_counter)),
           Counter([k \in 1..Len(with_both) |->
                       <<with_both[k].category, with_both[k].counter>>],
                   Len(with_both)) >>

\* summarize_columns, line 196: the call of parse_csv_header.
SummarizeColumns_Call(category_pattern, counter_pattern) ==
    /\ Idle
    /\ job.stage = "notcalled"
    /\ outcome["parse_csv_header"] = "notcalled"
    /\ job' = [fn |-> "summarize_columns", stage |-> "parsing",
               category_pattern |-> category_pattern,
               counter_pattern |-> counter_pattern]
    /\ UNCHANGED around
    /\ UNCHANGED <<csvfile, datafile, outcome, cursor, column_index,
                   column_indices, time_series, time_series_map, columns,
                   scale, timestamps, values, skipped, stderr, fs, result>>
    /\ UNCHANGED source

\* summarize_columns, lines 196-214: parse_csv_header has ended; its
\* exception propagates, its columns are filtered and counted.
SummarizeColumns_Return ==
    /\ job.stage = "parsing"
    /\ Ended("parse_csv_header")
    /\ IF outcome["parse_csv_header"] = "returned"
       THEN /\ job' = [job EXCEPT !.stage = "returned"]
            /\ result' = Returned("summarize_columns",
                                  <<job.category_pattern, job.counter_pattern>>,
                                  Tables(Filtered(columns, job.category_pattern,
                                                  job.counter_pattern)))
       ELSE /\ job' = [job EXCEPT !.stage = outcome["parse_csv_header"]]
            /\ result' = result
    /\ UNCHANGED around
    /\ UNCHANGED <<csvfile, datafile, outcome, cursor, column_index,
                   column_indices, time_series, time_series_map, columns,
                   scale, timestamps, values, skipped, stderr, fs>>
    /\ UNCHANGED source

\* A variant of SortedByCount: entries of equal count come out in the
\* reverse of their order in the table.
RECURSIVE SortedByCountTiesReversed(_)
SortedByCountTiesReversed(items) ==
    IF items = <<>> THEN <<>>
    ELSE LET rest == SortedByCountTiesReversed(Tail(items))
             n    == Cardinality({k \in 1..Len(rest) :
                                     rest[k][2] >= Head(items)[2]})
         IN  SubSeq(rest, 1, n) \o <<Head(items)>>
                 \o SubSeq(rest, n + 1, Len(rest))

\* sorted(table.items(), key=lambda x: x[1], reverse=True): by count,
\* largest first; the sort is stable, so entries of equal count keep
\* their order.
RECURSIVE SortedByCount(_)
SortedByCount(items) ==
    IF items = <<>> THEN <<>>
    ELSE LET rest == SortedByCount(Tail(items))
             n    == Cardinality({k \in 1..Len(rest) :
                                     rest[k][2] > Head(items)[2]})
         IN  SubSeq(rest, 1, n) \o <<Head(items)>>
                 \o SubSeq(rest, n + 1, Len(rest))

\* seq[:n]
Slice(seq, n) ==
    IF n >= 0 THEN SubSeq(seq, 1, IF n < Len(seq) THEN n ELSE Len(seq))
    ELSE SubSeq(seq, 1, IF Len(seq) + n > 0 THEN Len(seq) + n ELSE 0)

\* print_summary, lines 255-256: names longer than 35 are cut.
Short(name) ==
    IF Len(name) > 35 THEN SubSeq(name, 1, 35) \o "..." ELSE name

\* print_summary, lines 238-240 and 245-247: the entries listed for a
\* table, each <<rank, name, count>>.
Listing(table, top_n) ==
    LET top == Slice(SortedByCount(table), top_n) IN
    [i \in 1..Len(top) |-> <<i, top[i][1], top[i][2]>>]

\* print_summary, lines 252-257: the entries listed for the combined
\* table, each <<rank, <<category, counter>> as shown, count>>.
ListingCombined(table, top_n) ==
    LET top == Slice(SortedByCount(table), top_n) IN
    [i \in 1..Len(top) |->
        <<i, <<Short(top[i][1][1]), Short(top[i][1][2])>>, top[i][2]>>]

\* print_summary(category_counts, counter_counts, combined_counts, top_n)
\* on the tables summarize_columns returned: the three listings printed.
PrintSummary(top_n) ==
    /\ Idle
    /\ result.fn = "summarize_columns"
    /\ result' = Returned("print_summary", <<result.value, top_n>>,
                          << Listing(result.value[1], top_n),
                             Listing(result.value[2], top_n),
                             ListingCombined(result.value[3], top_n) >>)
    /\ UNCHANGED around
    /\ UNCHANGED <<csvfile, datafile, outcome, cursor, column_index,
                   column_indices, time_series, time_series_map, columns,
                   scale, timestamps, values, skipped, stderr, fs, job>>
    /\ UNCHANGED source

\* The call may be made: a call repeated in a row is repeated at most
\* MaxCalls times.
MayCall(fn, args) ==
    (result.fn = fn /\ result.args = args) => result.calls < MaxCalls

\* Reading in text mode: "\r\n" and "\r" are read as "\n".
RECURSIVE UniversalNewlines(_)
UniversalNewlines(text) ==
    IF text = "" THEN ""
    ELSE IF Len(text) >= 2 /\ SubSeq(text, 1, 2) = "\r\n"
    THEN "\n" \o UniversalNewlines(SubSeq(text, 3, Len(text)))
    ELSE IF Ch(text, 1) = "\r"
    THEN "\n" \o UniversalNewlines(Tail(text))
    ELSE Ch(text, 1) \o UniversalNewlines(Tail(text))

\* f.read() of a file opened with open(path, 'r')
ReadText(content) == UniversalNewlines(Join(content, ""))

\* A variant of CompanionFile: the extension is appended to the path.
CompanionFileAppended(data_file) == data_file \o ".meta"

\* load_metadata, lines 78-79: the companion file of a series file.
CompanionFile(data_file) == SplitextRoot(data_file) \o ".meta"

\* load_metadata(data_file): None when the companion file is missing.
load_metadata(files, data_file) ==
    IF CompanionFile(data_file) \in DOMAIN files
    THEN Strip(ReadText(files[CompanionFile(data_file)]))
    ELSE NoneStr

\* The digits of s from position i on, up to the first other character.
RECURSIVE DigitRun(_, _)
DigitRun(s, i) ==
    IF i > Len(s) \/ ~IsDigit(Ch(s, i)) THEN ""
    ELSE Ch(s, i) \o DigitRun(s, i + 1)

\* re.search(r'col_(\d+)', path) from position i on.
RECURSIVE SearchCol(_, _)
SearchCol(path, i) ==
    IF i + 4 > Len(path) THEN NoMatch
    ELSE IF SubSeq(path, i, i + 3) = "col_" /\ IsDigit(Ch(path, i + 4))
    THEN [found |-> TRUE, group |-> DigitRun(path, i + 4)]
    ELSE SearchCol(path, i + 1)

\* A variant of generate_title: the file name pattern is tried before the
\* metadata.
generate_titlePatternFirst(files, data_file, custom_title) ==
    IF custom_title \notin {NoneStr, ""} THEN custom_title
    ELSE IF SearchCol(data_file, 1).found
    THEN "Column " \o SearchCol(data_file, 1).group \o " Data Over Time"
    ELSE IF load_metadata(files, data_file) \notin {NoneStr, ""}
    THEN load_metadata(files, data_file)
    ELSE "Data from " \o data_file

\* generate_title(data_file, custom_title)
generate_title(files, data_file, custom_title) ==
    IF custom_title \notin {NoneStr, ""} THEN custom_title
    ELSE IF load_metadata(files, data_file) \notin {NoneStr, ""}
    THEN load_metadata(files, data_file)
    ELSE IF SearchCol(data_file, 1).found
    THEN "Column " \o SearchCol(data_file, 1).group \o " Data Over Time"
    ELSE "Data from " \o data_file

\* save_metadata(column_title, output_file) called by the owner of a
\* series file.
SaveMetadata(column_title, output_file) ==
    /\ Idle
    /\ MayCall("save_metadata", <<column_title, output_file>>)
    /\ fs' = save_metadata(fs, column_title, output_file)
    /\ result' = Returned("save_metadata", <<column_title, output_file>>,
                          NoneStr)
    /\ UNCHANGED around
    /\ UNCHANGED <<csvfile, datafile, outcome, cursor, column_index,
                   column_indices, time_series, time_series_map, columns,
                   scale, timestamps, values, skipped, stderr, job>>
    /\ UNCHANGED source

LoadMetadata(data_file) ==
    /\ Idle
    /\ MayCall("load_metadata", <<data_file>>)
    /\ result' = Returned("load_metadata", <<data_file>>,
                          load_metadata(fs, data_file))
    /\ UNCHANGED around
    /\ UNCHANGED <<csvfile, datafile, outcome, cursor, column_index,
                   column_indices, time_series, time_series_map, columns,
                   scale, timestamps, values, skipped, stderr, fs, job>>
    /\ UNCHANGED source

GenerateTitle(data_file, custom_title) ==
    /\ Idle
    /\ MayCall("generate_title", <<data_file, custom_title>>)
    /\ result' = Returned("generate_title", <<data_file, custom_title>>,
                          generate_title(fs, data_file, custom_title))
    /\ UNCHANGED around
    /\ UNCHANGED <<csvfile, datafile, outcome, cursor, column_index,
                   column_indices, time_series, time_series_map, columns,
                   scale, timestamps, values, skipped, stderr, fs, job>>
    /\ UNCHANGED source

\* s.replace(old, new): every occurrence of old, found from left to right
\* without overlap, is replaced.
RECURSIVE Replace(_, _, _)
Replace(s, old, new) ==
    LET p == Find(s, old, 1) IN
    IF p = 0 THEN s
    ELSE SubSeq(s, 1, p - 1) \o new
             \o Replace(SubSeq(s, p + Len(old), Len(s)), old, new)

\* generate_output_filename
generate_output_filename(data_file) ==
    LET match == SearchCol(data_file, 1) IN
    IF match.found THEN "esxtop_col_" \o match.group \o ".png"
    ELSE Replace(data_file, ".data", ".png")

GenerateOutputFilename(data_file) ==
    /\ Idle
    /\ MayCall("generate_output_filename", <<data_file>>)
    /\ result' = Returned("generate_output_filename", <<data_file>>,
                          generate_output_filename(data_file))
    /\ UNCHANGED around
    /\ UNCHANGED <<csvfile, datafile, outcome, cursor, column_index,
                   column_indices, time_series, time_series_map, columns,
                   scale, timestamps, values, skipped, stderr, fs, job>>
    /\ UNCHANGED source

-----------------------------------------------------------------------------
(* The web wrapper, app.py: upload requests are handled by the threads of  *)
(* one process, which has one working directory.                           *)

\* The working directory the server was started in.
StartDir == "/app"

\* tempfile.mkdtemp(dir=OUTPUT_FOLDER): a new directory for each request.
mkdtemp(r) == "/tmp/esxtop_output/tmp" \o IntStr(r)

\* str.lower()
RECURSIVE LowerText(_)
LowerText(t) ==
    IF t = "" THEN "" ELSE FoldCase(Ch(t, 1)) \o LowerText(Tail(t))

ALLOWED_EXTENSIONS == {"csv"}

\* allowed_file
allowed_file(filename) ==
    /\ Contains(filename, ".")
    /\ LowerText(SubSeq(filename, RFind(filename, ".", Len(filename)) + 1,
                        Len(filename))) \in ALLOWED_EXTENSIONS

\* secure_filename, for a name of letters, digits, dots and spaces: the
\* runs of spaces become "_" and the dots and "_" at the ends go.
secure_filename(filename) ==
    StripChars(Join(SelectSeq(Split(filename, " "), LAMBDA w : w # ""), "_"),
               {".", "_"})

\* A file of a directory: its name and the request whose upload or script
\* made it.
FileOf(name, r) == [name |-> name, by |-> r]

\* The file a describe script leaves in its working directory.
Artifact(script) ==
    IF script = "describe_extop_web.sh" THEN "vdisk_col_ids"
    ELSE "pdisk_col_ids"

\* run_analysis, lines 76-78: the generated files of the directory.
Generated(files) ==
    {f \in files : \/ EndsWith(f.name, ".png")
                   \/ EndsWith(f.name, ".data")
                   \/ EndsWith(f.name, "_col_ids")}

\* A request that has arrived.
Arrived(filename, analysis_type) ==
    [pc |-> "arrived", filename |-> filename, analysis_type |-> analysis_type,
     output_dir |-> "", original_dir |-> "", ran_in |-> <<>>, files |-> {},
     status |-> 0]

WebUnchanged ==
    /\ UNCHANGED <<csvfile, datafile, outcome, cursor, column_index,
                   column_indices, time_series, time_series_map, columns,
                   scale, timestamps, values, skipped, stderr>>
    /\ UNCHANGED source
    /\ UNCHANGED side
    /\ UNCHANGED <<process, disk, writers>>

\* upload_file, lines 148-168: the upload is refused with 400, or its own
\* output directory is made and the upload saved in it.
UploadFile_Save(r) ==
    /\ requests[r].pc = "arrived"
    /\ IF requests[r].filename = "" \/ ~allowed_file(requests[r].filename)
       THEN /\ requests' = [requests EXCEPT ![r].pc = "done",
                                            ![r].status = 400]
            /\ tmpdirs' = tmpdirs
       ELSE /\ requests' = [requests EXCEPT ![r].pc = "getcwd",
                                            ![r].output_dir = mkdtemp(r)]
            /\ tmpdirs' = [d \in (DOMAIN tmpdirs) \cup {mkdtemp(r)} |->
                              IF d = mkdtemp(r)
                              THEN {FileOf(secure_filename(requests[r].filename), r)}
                              ELSE tmpdirs[d]]
    /\ cwd' = cwd
    /\ WebUnchanged

\* run_analysis, line 53: original_dir = os.getcwd()
RunAnalysis_Getcwd(r) ==
    /\ requests[r].pc = "getcwd"
    /\ requests' = [requests EXCEPT ![r].pc = "chdir",
                                    ![r].original_dir = cwd]
    /\ UNCHANGED <<cwd, tmpdirs>>
    /\ WebUnchanged

\* The scripts an analysis type runs, lines 59 and 67.
ScriptsOf(analysis_type) ==
    (IF analysis_type \in {"describe", "both"}
     THEN <<"describe_extop_web.sh">> ELSE <<>>)
    \o (IF analysis_type \in {"describe-pdisk", "both"}
        THEN <<"describe_physical_disk.sh">> ELSE <<>>)

\* run_analysis, line 54: os.chdir(output_dir)
RunAnalysis_Chdir(r) ==
    /\ requests[r].pc = "chdir"
    /\ cwd' = requests[r].output_dir
    /\ requests' = [requests EXCEPT ![r].pc = "scripts"]
    /\ tmpdirs' = tmpdirs
    /\ WebUnchanged

\* run_analysis, lines 59-73, and run_describe_script: the next script of
\* the analysis runs as a child process, which starts in the working
\* directory the server has at that moment and leaves its file there.
RunAnalysis_Script(r) ==
    /\ requests[r].pc = "scripts"
    /\ Len(requests[r].ran_in) < Len(ScriptsOf(requests[r].analysis_type))
    /\ LET script == ScriptsOf(requests[r].analysis_type)
                         [Len(requests[r].ran_in) + 1]
       IN  tmpdirs' = [tmpdirs EXCEPT ![cwd] = @ \cup {FileOf(Artifact(script), r)}]
    /\ requests' = [requests EXCEPT ![r].ran_in = Append(@, cwd)]
    /\ cwd' = cwd
    /\ WebUnchanged

\* run_analysis, lines 76-78: os.listdir(output_dir)
RunAnalysis_Listdir(r) ==
    /\ requests[r].pc = "scripts"
    /\ Len(requests[r].ran_in) = Len(ScriptsOf(requests[r].analysis_type))
    /\ requests' = [requests EXCEPT
                       ![r].pc = "finally",
                       ![r].files = Generated(tmpdirs[requests[r].output_dir])]
    /\ UNCHANGED <<cwd, tmpdirs>>
    /\ WebUnchanged

\* run_analysis, line 86: os.chdir(original_dir)
RunAnalysis_Finally(r) ==
    /\ requests[r].pc = "finally"
    /\ cwd' = requests[r].original_dir
    /\ requests' = [requests EXCEPT ![r].pc = "respond"]
    /\ tmpdirs' = tmpdirs
    /\ WebUnchanged

\* upload_file, lines 174-177: the response.
UploadFile_Respond(r) ==
    /\ requests[r].pc = "respond"
    /\ requests' = [requests EXCEPT ![r].pc = "done", ![r].status = 200]
    /\ UNCHANGED <<cwd, tmpdirs>>
    /\ WebUnchanged

-----------------------------------------------------------------------------
(* Concurrent invocations of extract_and_save: each is a process of its    *)
(* own, with its own series and its own file handles; the files are        *)
(* shared.  The texts written are shorter than the buffer of a handle, so  *)
(* that a handle passes them to the file in one write, when it is closed.  *)

\* The text save_time_series writes for a series.
RECURSIVE SavedText(_)
SavedText(lines) ==
    IF lines = <<>> THEN "" ELSE Head(lines) \o SavedText(Tail(lines))

\* A write of text at the start of a file: the text replaces what the
\* file holds there and the rest of the file stays.
WriteAtStart(old, text) ==
    IF Len(text) >= Len(old) THEN text
    ELSE text \o SubSeq(old, Len(text) + 1, Len(old))

\* An invocation that has extracted its series and is about to save it.
Invocation(series, output_file, column_title) ==
    [pc |-> "open", series |-> series, output_file |-> output_file,
     column_title |-> column_title]

RaceUnchanged ==
    /\ UNCHANGED <<csvfile, datafile, outcome, cursor, column_index,
                   column_indices, time_series, time_series_map, columns,
                   scale, timestamps, values, skipped, stderr>>
    /\ UNCHANGED source
    /\ UNCHANGED side
    /\ UNCHANGED <<process, cwd, requests, tmpdirs>>

\* save_time_series, line 115: open(output_file, 'w') creates the file or
\* empties it.
Invocation_Open(w) ==
    /\ writers[w].pc = "open"
    /\ disk' = Write(disk, writers[w].output_file, "")
    /\ writers' = [writers EXCEPT ![w].pc = "close"]
    /\ RaceUnchanged

\* save_time_series, lines 116-120: the end of the with block writes the
\* lines from the start of the file; then extract_and_save, line 180.
Invocation_Close(w) ==
    /\ writers[w].pc = "close"
    /\ disk' = [disk EXCEPT ![writers[w].output_file] =
                   WriteAtStart(@, SavedText(SavedLines(writers[w].series)))]
    /\ writers' = [writers EXCEPT ![w].pc =
                      IF writers[w].column_title \notin {NoneStr, ""}
                      THEN "meta_open" ELSE "done"]
    /\ RaceUnchanged

\* save_metadata, line 140: open(meta_file, 'w')
Invocation_MetaOpen(w) ==
    /\ writers[w].pc = "meta_open"
    /\ disk' = Write(disk, MetaFile(writers[w].output_file), "")
    /\ writers' = [writers EXCEPT ![w].pc = "meta_close"]
    /\ RaceUnchanged

\* save_metadata, line 141, and the end of the with block.
Invocation_MetaClose(w) ==
    /\ writers[w].pc = "meta_close"
    /\ disk' = [disk EXCEPT ![MetaFile(writers[w].output_file)] =
                   WriteAtStart(@, writers[w].column_title)]
    /\ writers' = [writers EXCEPT ![w].pc = "done"]
    /\ RaceUnchanged

-----------------------------------------------------------------------------
(* The scripts.  process is the run of one script: its arguments, what it  *)
(* printed, the exception that reached its main and its exit status.  A    *)
(* script calls the core; the calls are the actions of the core, taken     *)
(* while the script runs.                                                  *)

\* int(s) of a command-line argument: decimal digits with an optional
\* sign, surrounded by whitespace; ValueError for any other text of the
\* model.
ParseInt(s) ==
    LET t      == Strip(s)
        signed == Len(t) >= 1 /\ Ch(t, 1) \in {"+", "-"}
        digits == IF signed THEN SubSeq(t, 2, Len(t)) ELSE t
    IN  IF digits # "" /\ AllDigits(digits)
        THEN [ok |-> TRUE,
              val |-> IF signed /\ Ch(t, 1) = "-" THEN 0 - ToNat(digits)
                      ELSE ToNat(digits)]
        ELSE [ok |-> FALSE, val |-> 0]

\* The script has started with sys.argv = argv; status -1: not exited.
Run(script, argv) ==
    [script |-> script, stage |-> "running", argv |-> argv, args |-> <<>>,
     stdout |-> <<>>, stderr |-> <<>>, error |-> "", report |-> <<>>,
     uncaught |-> FALSE, traceback |-> FALSE, status |-> -1]

\* print(line) / print(line, file=sys.stderr)
PrintLine(p, stream, line) ==
    IF stream = "stdout" THEN [p EXCEPT !.stdout = Append(@, line)]
    ELSE [p EXCEPT !.stderr = Append(@, line)]

\* A handler of main has caught exception e and prints line for it.
Report(p, e, stream, line) ==
    PrintLine([p EXCEPT !.error = e, !.report = Append(@, line)], stream, line)

\* sys.exit(status), or the end of main for status 0.
sys_exit(p, status) == [p EXCEPT !.stage = "exited", !.status = status]

\* No handler catches exception e: the interpreter prints the traceback
\* to stderr and exits with status 1.
Uncaught(p, e) ==
    [p EXCEPT !.stage = "exited", !.status = 1, !.error = e,
              !.uncaught = TRUE, !.traceback = TRUE]

\* traceback.print_exc()
print_exc(p) == [p EXCEPT !.traceback = TRUE]

\* str(e) of the exception underlying a failure of the core.
StrOfCause(cause, filename) ==
    IF cause = "PermissionError"
    THEN "[Errno 13] Permission denied: '" \o filename \o "'"
    ELSE ""

\* str(e) of the ValueError operation op raised.
StrOfValueError(op, filename) ==
    IF op = "load_data_file" THEN "No valid data points found in file"
    ELSE IF op = "parse_csv_header"
    THEN "Error parsing CSV file: " \o StrOfCause(raised[op], filename)
    ELSE "Error extracting data: " \o StrOfCause(raised[op], filename)

\* The script runs and has not exited.
Calls(script) == process.stage = "running" /\ process.script = script

CliUnchanged ==
    /\ UNCHANGED <<csvfile, datafile, outcome, cursor, column_index,
                   column_indices, time_series, time_series_map, columns,
                   scale, timestamps, values, skipped, stderr>>
    /\ UNCHANGED source
    /\ UNCHANGED <<job, result>>
    /\ UNCHANGED <<disk, writers, cwd, requests, tmpdirs>>

\* The handlers of the mains: except FileNotFoundError / except Exception,
\* each a line on stream and sys.exit(1).
Handled(p, e, op, filename, stream) ==
    IF e = "FileNotFoundError"
    THEN sys_exit(Report(p, e, stream,
                         "Error: File '" \o filename \o "' not found."), 1)
    ELSE sys_exit(Report(p, e, stream,
                         "An error occurred: "
                             \o StrOfValueError(op, filename)), 1)

\* scripts/extract_column.py, main, lines 21-26.
ExtractColumn_Main(argv) ==
    /\ process.stage = "none"
    /\ Idle
    /\ job.stage = "notcalled"
    /\ process' =
           LET p == Run("extract_column.py", argv) IN
           IF Len(argv) < 3
           THEN sys_exit(PrintLine(p, "stdout",
                    "Usage: extract_column.py <esxtop-batch.csv> <column_index>"),
                         1)
           ELSE IF ~ParseInt(argv[3]).ok THEN Uncaught(p, "ValueError")
           ELSE [p EXCEPT !.args = [filename |-> argv[2],
                                    column_index |-> ParseInt(argv[3]).val]]
    /\ UNCHANGED fs
    /\ CliUnchanged

\* scripts/extract_column.py, main, lines 29-37: extract_and_save has
\* ended.
ExtractColumn_Exit ==
    /\ Calls("extract_column.py")
    /\ job.stage \in {"returned"} \cup Errors
    /\ process' =
           IF job.stage = "returned"
           THEN sys_exit(PrintLine(process, "stdout",
                                   "Saved output to: " \o result.value), 0)
           ELSE Handled(process, job.stage, "extract_column_data",
                        process.args.filename, "stdout")
    /\ UNCHANGED fs
    /\ CliUnchanged

\* print(f"  - {output_file} ({title})") for the pairs of
\* zip(column_indices, output_files) from the k-th on.
RECURSIVE ZipLines(_, _, _, _)
ZipLines(indices, output_files, column_titles, k) ==
    IF k > Len(indices) \/ k > Len(output_files) THEN <<>>
    ELSE << "  - " \o output_files[k] \o " ("
                \o (IF DictHas(column_titles, indices[k])
                    THEN DictGet(column_titles, indices[k]) ELSE "Unknown")
                \o ")" >>
             \o ZipLines(indices, output_files, column_titles, k + 1)

\* The usage of scripts/extract_columns_batch.py, lines 27-34.
BatchUsage ==
    << "Usage: extract_columns_batch.py <csv_file> <col1> <col2> [col3] ...",
       "",
       "Extract multiple columns from CSV in a single pass.",
       "Much more efficient than extracting columns individually.",
       "Also saves human-friendly titles to .meta files for better charts.",
       "",
       "Example:",
       "  ./scripts/extract_columns_batch.py esxtop.csv 100 200 300" >>

\* scripts/extract_columns_batch.py, main, lines 26-56.
ExtractColumnsBatch_Main(argv) ==
    /\ process.stage = "none"
    /\ Idle
    /\ job.stage = "notcalled"
    /\ process' =
           LET p    == Run("extract_columns_batch.py", argv)
               cols == SubSeq(argv, 3, Len(argv))
           IN  IF Len(argv) < 3
               THEN sys_exit([p EXCEPT !.stdout = BatchUsage], 1)
               ELSE IF \E k \in 1..Len(cols) : ~ParseInt(cols[k]).ok
               THEN sys_exit(Report(p, "ValueError", "stdout",
                                "Error: Column indices must be integers"), 1)
               ELSE [p EXCEPT
                       !.args = [filename |-> argv[2],
                                 column_indices |->
                                     [k \in 1..Len(cols) |->
                                         ParseInt(cols[k]).val],
                                 column_titles |-> <<>>],
                       !.stdout = << "Extracting " \o NatStr(Len(cols))
                                        \o " columns from " \o argv[2]
                                        \o "...",
                                     "Reading column metadata..." >>]
    /\ UNCHANGED fs
    /\ CliUnchanged

\* column_titles[idx] = column_map[idx].get_friendly_name() for the
\* requested indices from the k-th on that are columns of the header.
RECURSIVE BuildTitles(_, _, _, _)
BuildTitles(titles, cols, indices, k) ==
    IF k > Len(indices) THEN titles
    ELSE LET found == SelectSeq(cols, LAMBDA col : col.index = indices[k]) IN
         BuildTitles(IF found # <<>>
                     THEN DictSet(titles, indices[k],
                                  get_friendly_name(found[Len(found)]))
                     ELSE titles,
                     cols, indices, k + 1)

\* scripts/extract_columns_batch.py, main, lines 57-63 and the handlers:
\* parse_csv_header has ended.
ExtractColumnsBatch_Titles ==
    /\ Calls("extract_columns_batch.py")
    /\ job.stage = "notcalled"
    /\ Ended("parse_csv_header")
    /\ process.args.column_titles = <<>>
    /\ process.status = -1
    /\ process' =
           IF outcome["parse_csv_header"] = "returned"
           THEN [process EXCEPT
                   !.args.column_titles =
                       BuildTitles(<<>>, columns,
                                   process.args.column_indices, 1),
                   !.stage = "extracting"]
           ELSE Handled(process, outcome["parse_csv_header"],
                        "parse_csv_header", process.args.filename, "stdout")
    /\ UNCHANGED fs
    /\ CliUnchanged

\* scripts/extract_columns_batch.py, main, lines 66-77:
\* extract_and_save_batch has ended.
ExtractColumnsBatch_Exit ==
    /\ process.stage = "extracting"
    /\ job.stage \in {"returned"} \cup Errors
    /\ process' =
           IF job.stage = "returned"
           THEN sys_exit([process EXCEPT !.stdout =
                    @ \o << "Successfully extracted "
                               \o NatStr(Len(result.value)) \o " columns:" >>
                      \o ZipLines(process.args.column_indices, result.value,
                                  process.args.column_titles, 1)], 0)
           ELSE Handled(process, job.stage, "extract_multiple_columns",
                        process.args.filename, "stdout")
    /\ UNCHANGED fs
    /\ CliUnchanged

\* scripts/find_column_idx.py, main, lines 25-38.
FindColumnIdx_Main(argv) ==
    /\ process.stage = "none"
    /\ Idle
    /\ job.stage = "notcalled"
    /\ process' =
           LET p == Run("find_column_idx.py", argv) IN
           IF Len(argv) < 2
           THEN sys_exit(PrintLine(p, "stdout",
                    "Usage: python find_column_idx.py <filename.csv> [--limit N]"),
                         1)
           ELSE IF Len(argv) >= 4 /\ argv[3] = "--limit"
           THEN IF ParseInt(argv[4]).ok
                THEN [p EXCEPT !.args = [filename |-> argv[2],
                                         limit |-> ParseInt(argv[4]).val,
                                         limited |-> TRUE]]
                ELSE sys_exit(Report(p, "ValueError", "stdout",
                                "Error: --limit must be followed by a number"),
                              1)
           ELSE [p EXCEPT !.args = [filename |-> argv[2], limit |-> 0,
                                    limited |-> FALSE]]
    /\ UNCHANGED fs
    /\ CliUnchanged

\* print_column_info(column, verbose=False)
print_column_info(column) ==
    "Column " \o IntStr(column.index) \o " RAW " \o column.original \o "' "

\* scripts/find_column_idx.py, line 44:
\* columns[:limit] if limit else columns.  limit is None without --limit.
ColumnsToPrint(cols, limit, limited) ==
    IF limited /\ limit # 0 THEN Slice(cols, limit) ELSE cols

\* scripts/find_column_idx.py, main, lines 41-53: parse_csv_header has
\* ended.
FindColumnIdx_Exit ==
    /\ Calls("find_column_idx.py")
    /\ Ended("parse_csv_header")
    /\ process' =
           IF outcome["parse_csv_header"] = "returned"
           THEN LET shown == ColumnsToPrint(columns, process.args.limit,
                                            process.args.limited)
                IN  sys_exit([process EXCEPT !.stdout =
                        [k \in 1..Len(shown) |-> print_column_info(shown[k])]],
                             0)
           ELSE Handled(process, outcome["parse_csv_header"],
                        "parse_csv_header", process.args.filename, "stdout")
    /\ UNCHANGED fs
    /\ CliUnchanged

\* scripts/summarize_columns.py, main, lines 88-91, for the arguments
\* parse_args() accepted and without --save.
SummarizeColumnsPy_Main(csv_file, category, counter, top) ==
    /\ process.stage = "none"
    /\ Idle
    /\ job.stage = "notcalled"
    /\ process' =
           PrintLine([Run("summarize_columns.py",
                          <<"summarize_columns.py", csv_file>>)
                         EXCEPT !.args = [filename |-> csv_file,
                                          category |-> category,
                                          counter |-> counter, top |-> top]],
                     "stderr", "Analyzing " \o csv_file \o "...")
    /\ UNCHANGED fs
    /\ CliUnchanged

\* scripts/summarize_columns.py, main, lines 109-118: print_summary has
\* printed, or summarize_columns has raised.
SummarizeColumnsPy_Exit ==
    /\ Calls("summarize_columns.py")
    /\ \/ /\ job.stage = "returned"
          /\ result.fn = "print_summary"
          /\ process' = sys_exit([process EXCEPT !.stdout = result.value], 0)
       \/ /\ job.stage = "FileNotFoundError"
          /\ process' = Handled(process, job.stage, "parse_csv_header",
                                process.args.filename, "stderr")
       \/ /\ job.stage = "ValueError"
          /\ process' = print_exc(Handled(process, job.stage,
                                          "parse_csv_header",
                                          process.args.filename, "stderr"))
    /\ UNCHANGED fs
    /\ CliUnchanged

\* scripts/visualize_data.py, main, lines 42-46, for the arguments
\* parse_args() accepted.
VisualizeData_Main(data_file, factor) ==
    /\ process.stage = "none"
    /\ Idle
    /\ job.stage = "notcalled"
    /\ process' = [Run("visualize_data.py", <<"visualize_data.py", data_file>>)
                      EXCEPT !.args = [filename |-> data_file,
                                       scale |-> factor]]
    /\ UNCHANGED fs
    /\ CliUnchanged

\* scripts/visualize_data.py, main, lines 46-56: load_data_file has ended;
\* the chart of the series it returned is matplotlib's work.
VisualizeData_Exit ==
    /\ Calls("visualize_data.py")
    /\ Ended("load_data_file")
    /\ process' =
           IF outcome["load_data_file"] = "returned"
           THEN sys_exit(process, 0)
           ELSE IF outcome["load_data_file"] = "FileNotFoundError"
           THEN Handled(process, "FileNotFoundError", "load_data_file",
                        process.args.filename, "stderr")
           ELSE sys_exit(Report(process, "ValueError", "stderr",
                                "Error: " \o StrOfValueError(
                                    "load_data_file", process.args.filename)),
                         1)
    /\ UNCHANGED fs
    /\ CliUnchanged

-----------------------------------------------------------------------------
(* The scripts the packaged ones replace.  Each is one module-level        *)
(* script with no calls of the core.                                       *)

\* legacy/find_column_idx.py, lines 19-45: parsed_columns, from the k-th
\* cell of the header on; an entry is the dequoted cell.
RECURSIVE parsed_columns(_, _)
parsed_columns(header, k) ==
    IF k > Len(header) THEN <<>>
    ELSE LET col == Dequote(header[k]) IN
         IF StartsWith(col, "(PDH-CSV") THEN parsed_columns(header, k + 1)
         ELSE <<col>> \o parsed_columns(header, k + 1)

\* legacy/find_column_idx.py, lines 48-49: the lines printed.
LegacyColumnLines(header) ==
    LET cols == parsed_columns(header, 1) IN
    [i \in 1..Len(cols) |->
        "Column " \o IntStr(i - 1) \o " RAW " \o cols[i] \o "' "]

\* legacy/find_column_idx.py
LegacyFindColumnIdx(argv) ==
    /\ process.stage = "none"
    /\ Idle
    /\ job.stage = "notcalled"
    /\ process' =
           LET p == Run("legacy/find_column_idx.py", argv) IN
           IF Len(argv) < 2
           THEN sys_exit(PrintLine(p, "stdout",
                                   "Usage: python ext_v6.py <filename.csv>"), 1)
           ELSE IF ~csvfile.exists
           THEN sys_exit(Report(p, "FileNotFoundError", "stdout",
                                "Error: File '" \o argv[2] \o "' not found."),
                         1)
           ELSE IF fault.kind = "PermissionError"
           THEN sys_exit(Report(p, "PermissionError", "stdout",
                                "An error occurred: "
                                    \o StrOfCause("PermissionError", argv[2])),
                         1)
           ELSE IF Len(csvfile.content) = 0
           THEN sys_exit(Report(p, "StopIteration", "stdout",
                                "An error occurred: "), 1)
           ELSE sys_exit([p EXCEPT !.stdout =
                             LegacyColumnLines(csvfile.content[1])], 0)
    /\ UNCHANGED fs
    /\ CliUnchanged

\* get_value_by_col_index_v2_fs.py, lines 23-28: a row, from its k-th cell
\* on; the first cell that is a timestamp stores the cells after it.
RECURSIVE LegacyScanRow(_, _, _)
LegacyScanRow(series, row, k) ==
    IF k > Len(row) THEN series
    ELSE IF FullMatch(TIMESTAMP_PATTERN, Dequote(row[k]))
    THEN DictSet(series, Dequote(row[k]), SubSeq(row, k + 1, Len(row)))
    ELSE LegacyScanRow(series, row, k + 1)

\* get_value_by_col_index_v2_fs.py, lines 22-28: time_series after the
\* first n rows.
RECURSIVE LegacyTimeSeries(_, _)
LegacyTimeSeries(rows, n) ==
    IF n = 0 THEN <<>>
    ELSE LegacyScanRow(LegacyTimeSeries(rows, n - 1), rows[n], 1)

\* get_value_by_col_index_v2_fs.py, lines 32-37: the lines written.
LegacyLines(rows, index) ==
    LET series == LegacyTimeSeries(rows, Len(rows)) IN
    [i \in 1..Len(series) |->
        FormatLine(<<series[i][1], CellValue(series[i][2], index)>>)]

\* get_value_by_col_index_v2_fs.py
LegacyGetValue(argv) ==
    /\ process.stage = "none"
    /\ Idle
    /\ job.stage = "notcalled"
    /\ LET p == Run("get_value_by_col_index_v2_fs.py", argv) IN
       IF Len(argv) < 3
       THEN /\ process' = sys_exit(PrintLine(p, "stdout",
                "Usage: get_value_by_col_index.py <esxtop-batch.csv> <column_index>"),
                                   1)
            /\ UNCHANGED fs
       ELSE IF ~ParseInt(argv[3]).ok
       THEN /\ process' = Uncaught(p, "ValueError")
            /\ UNCHANGED fs
       ELSE IF ~csvfile.exists
       THEN /\ process' = sys_exit(Report(p, "FileNotFoundError", "stdout",
                              "Error: File '" \o argv[2] \o "' not found."), 1)
            /\ UNCHANGED fs
       ELSE IF fault.kind = "PermissionError"
       THEN /\ process' = sys_exit(Report(p, "PermissionError", "stdout",
                              "An error occurred: "
                                  \o StrOfCause("PermissionError", argv[2])), 1)
            /\ UNCHANGED fs
       ELSE LET column == ParseInt(argv[3]).val IN
            /\ fs' = Write(fs, DefaultOutput(column),
                           LegacyLines(csvfile.content, column))
            /\ process' = sys_exit(PrintLine(p, "stdout",
                              "Saved output to: " \o DefaultOutput(column)), 0)
    /\ CliUnchanged

-----------------------------------------------------------------------------
(* Inputs.                                                                 *)

MaxRows == 2

MaxHeaderCells == 2

MaxLines == 2

MaxPoints == 2

T1 == "01/15/2024 09:30:00"

\* earlier than T1
T2 == "01/15/2024 09:29:55"

\* has the shape of the pattern but names no calendar date-time
T3 == "13/45/2024 25:61:61"

\* Rows as csv.reader yields them (the enclosing quotes of a field are
\* already consumed by the reader; a quote left in a cell was doubled in
\* the file).
Row_ScenarioB == <<T1, "1.5", "", "abc">>

Row_Earlier == <<T2, "2", "nan">>

Row_Header == <<"(PDH-CSV 4.0) (UTC)(0)", "\\\\esx01\\Memory\\Free MBytes">>

Row_LateTimestamp == <<"x", T1, "7.25">>

Row_Quoted == <<"\"" \o T2 \o "\"", " 3.0 ", T1>>

Row_BadCalendar == <<T3, "-0.50">>

Row_NearMiss == <<T1 \o ".5", "4">>

\* A header whose cells kept quotes: two leading and one trailing, and a
\* leading one only.
Row_QuotedHeader == <<"\"\"\\\\esx01\\Memory\\Free MBytes\"", "\"Interval">>

\* The timestamp cell has a leading quote only.
Row_HalfQuoted == <<"\"" \o T1, "5">>

RowPool == {Row_ScenarioB, Row_Earlier, Row_Header, Row_LateTimestamp,
            Row_Quoted, Row_BadCalendar, Row_NearMiss}

SeqsUpTo(S, n) == UNION {[1..k -> S] : k \in 0..n}

IndexListPool == {<<>>, <<1>>, <<1, 2, 3>>, <<3, 1>>, <<0, 7>>, <<-1>>, <<2, 2>>}

HeaderCellPool ==
    {"(PDH-CSV 4.0) (UTC)(0)",
     "\\\\esx01.corp\\Virtual Disk(VM1:scsi0:0)\\Average MilliSec/Write",
     "\\\\esx01\\Physical Cpu(0)\\% Util\\Core",
     "\\\\esx01\\Memory",
     "\\\\esx01",
     "Interval",
     "\"\"\\\\esx01\\Memory\\Free MBytes\""}

DataLinePool ==
    {"not a valid line\n",
     T1 \o ": 1.5\n",
     T2 \o ": NaN\n",
     T1 \o ": abc\n",
     T3 \o ": 1.5\n",
     T1 \o ": 1.5: 2\n"}

PointValuePool == {None, NaN, ParseFloat("1.5").val, ParseFloat("2").val}

ScalePool == {1, 100}

-----------------------------------------------------------------------------
(* Specifications.                                                         *)

\* No extract_and_save or extract_and_save_batch is running.
NoJob == [stage |-> "notcalled"]

\* No function has returned a value.
NoResult == [fn |-> ""]

\* No script runs.
NoProcess == [stage |-> "none"]

\* Nothing runs around the calls of the core.
InitAround ==
    /\ process = NoProcess
    /\ disk = NoFiles
    /\ writers = <<>>
    /\ cwd = ""
    /\ requests = <<>>
    /\ tmpdirs = <<>>

\* The state of the core before its first call.
InitCalls ==
    /\ outcome = [op \in Ops |-> "notcalled"]
    /\ cursor = 0
    /\ column_index = 0
    /\ column_indices = <<>>
    /\ time_series = TimeSeriesData
    /\ time_series_map = <<>>
    /\ columns = <<>>
    /\ scale = 1
    /\ timestamps = <<>>
    /\ values = <<>>
    /\ skipped = 0
    /\ stderr = <<>>
    /\ raised = [op \in CsvOps |-> ""]
    /\ handle = [op \in CsvOps |-> NoHandle]
    /\ job = NoJob
    /\ result = NoResult

InitCore ==
    /\ InitCalls
    /\ InitAround

InitCommon ==
    /\ InitCore
    /\ fs = NoFiles

\* Extraction: a batch extraction of a CSV file, then single-column
\* extractions of the same file for the indices of the batch.
Init ==
    /\ fault = NoFault
    /\ csvfile \in {NoFile} \cup {File(f) : f \in SeqsUpTo(RowPool, MaxRows)}
    /\ datafile = NoFile
    /\ InitCommon

Next ==
    \/ \E indices \in IndexListPool : ExtractMultipleColumns_Call(indices)
    \/ ExtractMultipleColumns_Row
    \/ ExtractMultipleColumns_Return
    \/ \E i \in Range(column_indices) : ExtractColumnData_Call(i)
    \/ ExtractColumnData_Row
    \/ ExtractColumnData_Return

Spec == Init /\ [][Next]_vars

\* Header parsing of a CSV file whose first row is any header.
InitHeader ==
    /\ fault = NoFault
    /\ csvfile \in {NoFile, File(<<>>)}
                   \cup {File(<<h>>) : h \in SeqsUpTo(HeaderCellPool, MaxHeaderCells)}
    /\ datafile = NoFile
    /\ InitCommon

NextHeader ==
    \/ ParseCsvHeader_Call
    \/ ParseCsvHeader_Cell
    \/ ParseCsvHeader_Return

SpecHeader == InitHeader /\ [][NextHeader]_vars

\* A series is built point by point, saved and loaded back.
InitStore ==
    /\ fault = NoFault
    /\ csvfile = NoFile
    /\ datafile = NoFile
    /\ InitCommon

NextStore ==
    \/ \E ts \in {T1, T2, T3}, v \in PointValuePool :
           Len(time_series) < MaxPoints /\ AddPoint(ts, v)
    \/ SaveTimeSeries
    \/ \E factor \in ScalePool : LoadDataFile_Call(factor)
    \/ LoadDataFile_Line
    \/ LoadDataFile_Finish

SpecStore == InitStore /\ [][NextStore]_vars

\* Loading of any series file.
InitLoad ==
    /\ fault = NoFault
    /\ csvfile = NoFile
    /\ datafile \in {NoFile} \cup {File(f) : f \in SeqsUpTo(DataLinePool, MaxLines)}
    /\ InitCommon

NextLoad ==
    \/ \E factor \in ScalePool : LoadDataFile_Call(factor)
    \/ LoadDataFile_Line
    \/ LoadDataFile_Finish

SpecLoad == InitLoad /\ [][NextLoad]_vars

\* A session of calls, in any order, on a source and a series file that
\* may be missing.
InitSession ==
    /\ fault = NoFault
    /\ csvfile \in {NoFile, File(<<Row_Header, Row_ScenarioB>>),
                    File(<<Row_QuotedHeader, Row_HalfQuoted, Row_Quoted>>)}
    /\ datafile \in {NoFile, File(<<"not a valid line\n", T1 \o ": 1.5\n">>)}
    /\ InitCommon

NextSession ==
    \/ ParseCsvHeader_Call
    \/ ParseCsvHeader_Cell
    \/ ParseCsvHeader_Return
    \/ ExtractColumnData_Call(1)
    \/ ExtractColumnData_Row
    \/ ExtractColumnData_Return
    \/ ExtractMultipleColumns_Call(<<1, 2, 3>>)
    \/ ExtractMultipleColumns_Row
    \/ ExtractMultipleColumns_Return
    \/ SaveTimeSeries
    \/ LoadDataFile_Call(1)
    \/ LoadDataFile_Line
    \/ LoadDataFile_Finish

SpecSession == InitSession /\ [][NextSession]_vars

FaultRowPool == {Row_Header, Row_ScenarioB, Row_Earlier}

\* The read failures a source of the given rows can be subject to.
FaultsOf(rows) ==
    {NoFault, PermissionFault} \cup {DecodeFault(k) : k \in 1..Len(rows)}

\* Header parsing and extractions, in any order, of a source that may be
\* missing, empty, unreadable or undecodable from some row on.
InitFault ==
    /\ \/ csvfile = NoFile /\ fault = NoFault
       \/ \E rows \in SeqsUpTo(FaultRowPool, MaxRows) :
              /\ csvfile = File(rows)
              /\ fault \in FaultsOf(rows)
    /\ datafile = NoFile
    /\ InitCommon

NextFault ==
    \/ ParseCsvHeader_Call
    \/ ParseCsvHeader_Cell
    \/ ParseCsvHeader_Return
    \/ ExtractColumnData_Call(1)
    \/ ExtractColumnData_Row
    \/ ExtractColumnData_Return
    \/ ExtractMultipleColumns_Call(<<1, 2, 3>>)
    \/ ExtractMultipleColumns_Row
    \/ ExtractMultipleColumns_Return

SpecFault == InitFault /\ [][NextFault]_vars

\* Series and metadata files left in the output directory by an earlier
\* run.
OldOutputs ==
    Write(Write(NoFiles, "col_1.data", <<T2 \o ": 9.0\n">>),
          "col_1.meta", <<"old title">>)

OutputFilePool == {NoneStr, "out/series.data"}

TitlePool == {NoneStr, "", "Memory - Free MBytes"}

TitlesPool == {<<>>, <<(<<1, "Memory - Free MBytes">>)>>, <<(<<2, "">>)>>}

\* One extract_and_save or extract_and_save_batch of a source that may be
\* missing, unreadable or undecodable from some row on, into a directory
\* that may hold the outputs of an earlier run.
InitSave ==
    /\ \/ csvfile = NoFile /\ fault = NoFault
       \/ \E rows \in SeqsUpTo(FaultRowPool, MaxRows) :
              /\ csvfile = File(rows)
              /\ fault \in FaultsOf(rows)
    /\ datafile = NoFile
    /\ InitCore
    /\ fs \in {NoFiles, OldOutputs}

NextSave ==
    \/ \E output_file \in OutputFilePool, column_title \in TitlePool :
           ExtractAndSave_Call(1, output_file, column_title)
    \/ job.stage = "extracting" /\ job.fn = "extract_and_save"
          /\ ExtractColumnData_Call(job.column_index)
    \/ ExtractColumnData_Row
    \/ ExtractColumnData_Return
    \/ ExtractAndSave_Save
    \/ ExtractAndSave_Return
    \/ \E column_titles \in TitlesPool :
           ExtractAndSaveBatch_Call(<<1, 2>>, ".", column_titles)
    \/ job.stage = "extracting" /\ job.fn = "extract_and_save_batch"
          /\ ExtractMultipleColumns_Call(job.column_indices)
    \/ ExtractMultipleColumns_Row
    \/ ExtractMultipleColumns_Return
    \/ ExtractAndSaveBatch_Extracted
    \/ ExtractAndSaveBatch_Item
    \/ ExtractAndSaveBatch_Return

SpecSave == InitSave /\ [][NextSave]_vars

CategoryPool ==
    {"Virtual Disk(VM1:scsi0:0)", "Virtual Disk", "Virtual Disk()",
     "Virtual Disk(VM1", "Virtual Disk (VM1)", "virtual disk(vm1)",
     "Virtual Disk()/Virtual Disk(a)(b)", "Physical Disk(naa.6)", "Memory",
     ""}

CounterPool == {"", "Average MilliSec/Write", "% Util\\Core"}

OriginalPool == {"Interval", "\\\\esx01\\x"}

\* Friendly names of columns of any category, counter and original text,
\* asked for once or again.
InitNames ==
    /\ fault = NoFault
    /\ csvfile = NoFile
    /\ datafile = NoFile
    /\ InitCommon

NextNames ==
    \E category \in CategoryPool, counter \in CounterPool,
       original \in OriginalPool :
        LET col == ColumnMetadata(0, "esx01", category, counter, original) IN
        /\ result.fn = "get_friendly_name" /\ result.args = col
               => result.calls < MaxCalls
        /\ GetFriendlyName(col)

SpecNames == InitNames /\ [][NextNames]_vars

\* The most files the output directory holds.
MaxFiles == 1

MetaTitlePool == {"Memory - Free MBytes", " padded\n", "", "a\rb"}

PathPool == {"col_1.data", "out.d/col_12", "my_data.data", "x.meta"}

CustomTitlePool == {NoneStr, "", "My Title"}

\* Series files to chart: named by column or not, with the extension
\* .data or another, with ".data" elsewhere in the path.
DataFilePool ==
    {"col_456.data", "out.d/col_12", "my_data.data", "x.meta",
     "run.data/series.data", "my.database.data", "col_x.data"}

\* Titles are saved for series files, loaded back, and chart titles
\* generated, in any order.
InitMeta ==
    /\ fault = NoFault
    /\ csvfile = NoFile
    /\ datafile = NoFile
    /\ InitCommon

NextMeta ==
    \/ \E column_title \in MetaTitlePool, output_file \in PathPool :
           /\ Cardinality(DOMAIN save_metadata(fs, column_title, output_file))
                  <= MaxFiles
           /\ SaveMetadata(column_title, output_file)
    \/ \E data_file \in PathPool : LoadMetadata(data_file)
    \/ \E data_file \in PathPool, custom_title \in CustomTitlePool :
           GenerateTitle(data_file, custom_title)
    \/ \E data_file \in DataFilePool : GenerateOutputFilename(data_file)

SpecMeta == InitMeta /\ [][NextMeta]_vars

\* The header cell of a counter of a category of host esx01.
Cell(category, counter) == "\\\\esx01\\" \o category \o "\\" \o counter

\* Three columns of one virtual disk and two of one physical disk.
Header_ScenarioD ==
    << Cell("Virtual Disk(VM1:scsi0:0)", "Average MilliSec/Write"),
       Cell("Physical Disk(naa.6)", "Reads/sec"),
       Cell("Virtual Disk(VM1:scsi0:0)", "Average MilliSec/Read"),
       Cell("Virtual Disk(VM1:scsi0:0)", "Reads/sec"),
       Cell("Physical Disk(naa.6)", "Writes/sec") >>

\* Three columns of three virtual disks and two of one physical disk.
Header_ThreeDisks ==
    << "(PDH-CSV 4.0) (UTC)(0)",
       Cell("Virtual Disk(VM1:scsi0:0)", "Average MilliSec/Write"),
       Cell("Virtual Disk(VM1:scsi0:1)", "Average MilliSec/Write"),
       Cell("Physical Disk(naa.6)", "Reads/sec"),
       Cell("Virtual Disk(VM2:scsi0:0)", "Average MilliSec/Write"),
       Cell("Physical Disk(naa.6)", "Writes/sec") >>

\* Columns without counter, without category, and without either.
Header_Mixed ==
    << "(PDH-CSV 4.0) (UTC)(0)",
       "\\\\esx01\\Memory",
       Cell("", "Free MBytes"),
       Cell("Memory", "Free MBytes"),
       "Interval",
       Cell("Memory", "Free MBytes"),
       Cell("Physical Cpu(0)", "% Util\\Core") >>

SummaryHeaderPool == {Header_ScenarioD, Header_ThreeDisks, Header_Mixed}

CategoryPatternPool ==
    {NoneStr, "", "Virtual Disk", "virtual disk.*scsi0:0", "^Memory$"}

CounterPatternPool == {NoneStr, "write", "Free"}

TopPool == {-1, 0, 1, 2, 20}

\* One summarize_columns of a source, with or without patterns, and the
\* printing of its tables.
InitSummary ==
    /\ fault = NoFault
    /\ csvfile \in {NoFile} \cup {File(<<h>>) : h \in SummaryHeaderPool}
    /\ datafile = NoFile
    /\ InitCommon

NextSummary ==
    \/ \E category_pattern \in CategoryPatternPool,
          counter_pattern \in CounterPatternPool :
           SummarizeColumns_Call(category_pattern, counter_pattern)
    \/ job.stage = "parsing" /\ ParseCsvHeader_Call
    \/ ParseCsvHeader_Cell
    \/ ParseCsvHeader_Return
    \/ SummarizeColumns_Return
    \/ \E top_n \in TopPool : PrintSummary(top_n)

SpecSummary == InitSummary /\ [][NextSummary]_vars

\* The caller's next call: every call starts from its own fresh state;
\* the source and the files of the output directory stay.
NextCall ==
    /\ job.stage \in {"returned"} \cup Errors
    /\ outcome' = [op \in Ops |-> "notcalled"]
    /\ cursor' = 0
    /\ column_index' = 0
    /\ column_indices' = <<>>
    /\ time_series' = TimeSeriesData
    /\ time_series_map' = <<>>
    /\ raised' = [op \in CsvOps |-> ""]
    /\ handle' = [op \in CsvOps |-> NoHandle]
    /\ job' = NoJob
    /\ result' = NoResult
    /\ UNCHANGED around
    /\ UNCHANGED <<csvfile, datafile, columns, scale, timestamps, values,
                   skipped, stderr, fault, fs>>

RunOutputPool == {NoneStr, "series", "x.meta"}

RunTitlePool == {NoneStr, "Memory - Free MBytes", "Cpu - Util"}

RunTitlesPool == {<<>>, <<(<<1, "Memory - Free MBytes">>)>>}

\* Any sequence of extract_and_save and extract_and_save_batch calls on
\* one source into one output directory, empty at first.
InitRuns ==
    /\ fault = NoFault
    /\ csvfile \in {NoFile, File(<<Row_ScenarioB>>),
                    File(<<Row_Header, Row_Earlier>>)}
    /\ datafile = NoFile
    /\ InitCommon

NextRuns ==
    \/ \E output_file \in RunOutputPool, column_title \in RunTitlePool :
           ExtractAndSave_Call(1, output_file, column_title)
    \/ job.stage = "extracting" /\ job.fn = "extract_and_save"
          /\ ExtractColumnData_Call(job.column_index)
    \/ ExtractColumnData_Row
    \/ ExtractColumnData_Return
    \/ ExtractAndSave_Save
    \/ ExtractAndSave_Return
    \/ \E column_titles \in RunTitlesPool :
           ExtractAndSaveBatch_Call(<<1, 2>>, "", column_titles)
    \/ job.stage = "extracting" /\ job.fn = "extract_and_save_batch"
          /\ ExtractMultipleColumns_Call(job.column_indices)
    \/ ExtractMultipleColumns_Row
    \/ ExtractMultipleColumns_Return
    \/ ExtractAndSaveBatch_Extracted
    \/ ExtractAndSaveBatch_Item
    \/ ExtractAndSaveBatch_Return
    \/ NextCall

SpecRuns == InitRuns /\ [][NextRuns]_vars

\* The most upload requests in flight.
MaxUploads == 2

UploadNamePool == {"esxtop batch.CSV", "notes.txt"}

AnalysisTypePool == {"describe", "both"}

\* Upload requests handled by the threads of the server, in any
\* interleaving of their steps.
InitWeb ==
    /\ fault = NoFault
    /\ csvfile = NoFile
    /\ datafile = NoFile
    /\ InitCalls
    /\ fs = NoFiles
    /\ process = NoProcess
    /\ disk = NoFiles
    /\ writers = <<>>
    /\ cwd = StartDir
    /\ requests \in [1..MaxUploads ->
                        {Arrived(n, t) : n \in UploadNamePool,
                                         t \in AnalysisTypePool}]
    /\ tmpdirs = [d \in {StartDir} |-> {}]

NextWeb ==
    \/ \E r \in DOMAIN requests : UploadFile_Save(r)
    \/ \E r \in DOMAIN requests : RunAnalysis_Getcwd(r)
    \/ \E r \in DOMAIN requests : RunAnalysis_Chdir(r)
    \/ \E r \in DOMAIN requests : RunAnalysis_Script(r)
    \/ \E r \in DOMAIN requests : RunAnalysis_Listdir(r)
    \/ \E r \in DOMAIN requests : RunAnalysis_Finally(r)
    \/ \E r \in DOMAIN requests : UploadFile_Respond(r)

SpecWeb == InitWeb /\ [][NextWeb]_vars

\* The most concurrent invocations.
MaxWriters == 2

\* The series of two sources for one column.
RaceSeriesPool ==
    { << <<T2, ParseFloat("2").val>>, <<T1, ParseFloat("1.5").val>> >>,
      << <<T1, None>> >> }

RaceTitlePool == {NoneStr, "Memory - Free MBytes", "Cpu - Util"}

\* Concurrent invocations of extract_and_save for column 1 in one
\* working directory, each with the series of its source and its title.
InitRace ==
    /\ fault = NoFault
    /\ csvfile = NoFile
    /\ datafile = NoFile
    /\ InitCalls
    /\ fs = NoFiles
    /\ process = NoProcess
    /\ disk = NoFiles
    /\ writers \in [1..MaxWriters ->
                       {Invocation(series, DefaultOutput(1), title) :
                            series \in RaceSeriesPool, title \in RaceTitlePool}]
    /\ cwd = ""
    /\ requests = <<>>
    /\ tmpdirs = <<>>

NextRace ==
    \/ \E w \in DOMAIN writers : Invocation_Open(w)
    \/ \E w \in DOMAIN writers : Invocation_Close(w)
    \/ \E w \in DOMAIN writers : Invocation_MetaOpen(w)
    \/ \E w \in DOMAIN writers : Invocation_MetaClose(w)

SpecRace == InitRace /\ [][NextRace]_vars

\* A header with the marker cell, and the rows of two samples.
Row_CliHeader ==
    << "(PDH-CSV 4.0) (UTC)(0)", Cell("Memory", "Free MBytes"),
       Cell("Physical Cpu(0)", "% Util") >>

Row_CliFirst == <<T1, "5.0", "7.5">>

Row_CliSecond == <<T2, "6.0", "8.5">>

\* The command lines of the scripts that take sys.argv.
ArgvPool(script) ==
    IF script = "find_column_idx.py"
    THEN { <<script>>, <<script, "esxtop.csv">>,
           <<script, "esxtop.csv", "--limit", "0">>,
           <<script, "esxtop.csv", "--limit", "1">>,
           <<script, "esxtop.csv", "--limit", "5">>,
           <<script, "esxtop.csv", "--limit", "many">> }
    ELSE IF script = "extract_columns_batch.py"
    THEN { <<script, "esxtop.csv">>, <<script, "esxtop.csv", "1">>,
           <<script, "esxtop.csv", "2", "1">>,
           <<script, "esxtop.csv", "1", "1", "2">>,
           <<script, "esxtop.csv", "1", "two">> }
    ELSE { <<script, "esxtop.csv">>, <<script, "esxtop.csv", "1">>,
           <<script, "esxtop.csv", "2">>, <<script, "esxtop.csv", "one">> }

\* One run of one script, on a source that is missing, empty, unreadable
\* or has two samples of two counters, and on a series file that is
\* missing, without a valid line or with one.
InitCli ==
    /\ \/ /\ fault = NoFault
          /\ csvfile \in {NoFile, File(<<>>),
                          File(<<Row_CliHeader, Row_CliFirst, Row_CliSecond>>)}
       \/ /\ fault = PermissionFault
          /\ csvfile = File(<<Row_CliHeader, Row_CliFirst>>)
    /\ datafile \in {NoFile, File(<<"not a valid line\n">>),
                     File(<<T1 \o ": 1.5\n">>)}
    /\ InitCommon

NextCli ==
    \/ \E argv \in ArgvPool("extract_column.py") : ExtractColumn_Main(argv)
    \/ Calls("extract_column.py")
          /\ ExtractAndSave_Call(process.args.column_index, NoneStr, NoneStr)
    \/ job.stage = "extracting" /\ job.fn = "extract_and_save"
          /\ ExtractColumnData_Call(job.column_index)
    \/ ExtractColumnData_Row
    \/ ExtractColumnData_Return
    \/ ExtractAndSave_Save
    \/ ExtractAndSave_Return
    \/ ExtractColumn_Exit
    \/ \E argv \in ArgvPool("extract_columns_batch.py") :
           ExtractColumnsBatch_Main(argv)
    \/ Calls("extract_columns_batch.py") /\ ParseCsvHeader_Call
    \/ Calls("find_column_idx.py") /\ ParseCsvHeader_Call
    \/ ParseCsvHeader_Cell
    \/ ParseCsvHeader_Return
    \/ ExtractColumnsBatch_Titles
    \/ process.stage = "extracting"
          /\ ExtractAndSaveBatch_Call(process.args.column_indices, ".",
                                      process.args.column_titles)
    \/ job.stage = "extracting" /\ job.fn = "extract_and_save_batch"
          /\ ExtractMultipleColumns_Call(job.column_indices)
    \/ ExtractMultipleColumns_Row
    \/ ExtractMultipleColumns_Return
    \/ ExtractAndSaveBatch_Extracted
    \/ ExtractAndSaveBatch_Item
    \/ ExtractAndSaveBatch_Return
    \/ ExtractColumnsBatch_Exit
    \/ \E argv \in ArgvPool("find_column_idx.py") : FindColumnIdx_Main(argv)
    \/ FindColumnIdx_Exit
    \/ \E category \in {NoneStr, "Memory"}, top \in {1, 20} :
           SummarizeColumnsPy_Main("esxtop.csv", category, NoneStr, top)
    \/ Calls("summarize_columns.py")
          /\ SummarizeColumns_Call(process.args.category, process.args.counter)
    \/ job.stage = "parsing" /\ ParseCsvHeader_Call
    \/ SummarizeColumns_Return
    \/ Calls("summarize_columns.py") /\ PrintSummary(process.args.top)
    \/ SummarizeColumnsPy_Exit
    \/ \E factor \in ScalePool : VisualizeData_Main("col_1.data", factor)
    \/ Calls("visualize_data.py") /\ LoadDataFile_Call(process.args.scale)
    \/ LoadDataFile_Line
    \/ LoadDataFile_Finish
    \/ VisualizeData_Exit
    \/ \E argv \in ArgvPool("legacy/find_column_idx.py") :
           LegacyFindColumnIdx(argv)
    \/ \E argv \in ArgvPool("get_value_by_col_index_v2_fs.py") :
           LegacyGetValue(argv)

SpecCli == InitCli /\ [][NextCli]_vars

-----------------------------------------------------------------------------
(* What the claims talk about.                                             *)

\* The positions of the cells of a row that are timestamps.
TimestampCells(row) ==
    {k \in 1..Len(row) : FullMatch(TIMESTAMP_PATTERN, Dequote(row[k]))}

HasTimestamp(row) == TimestampCells(row) # {}

\* The row's timestamp: its first timestamp cell.
RowTimestamp(row) ==
    Dequote(row[CHOOSE k \in TimestampCells(row) :
                    \A j \in TimestampCells(row) : k <= j])

\* The rows an extraction has scanned so far.
ScannedRows(op) ==
    IF outcome[op] = "running" THEN SubSeq(csvfile.content, 1, cursor)
    ELSE IF outcome[op] = "returned" THEN csvfile.content
    ELSE <<>>

\* The value a point takes from a row at a zero-based cell position.
PointValue(row, index) ==
    IF index < Len(row)
    THEN LET number == ParseFloat(row[index + 1]) IN
         IF number.ok THEN number.val ELSE None
    ELSE None

\* The timestamp of each row, "" for a row that has none.
RowTimestamps(rows) ==
    [j \in 1..Len(rows) |->
        IF HasTimestamp(rows[j]) THEN RowTimestamp(rows[j]) ELSE ""]

\* The series holds exactly the points of the rows, whose timestamps are
\* tss, for the cell position index: one key per row timestamp, none for a
\* row without one, each with the value of the last row that has that
\* timestamp.
HoldsPointsOf(series, rows, tss, index) ==
    /\ Range(DictKeys(series)) = Range(tss) \ {""}
    /\ \A j \in 1..Len(rows) :
           (tss[j] # "" /\ \A i \in (j + 1)..Len(rows) : tss[i] # tss[j])
           => DictGet(series, tss[j]) = PointValue(rows[j], index)

Float(text) == ParseFloat(text).val

\* C1: for every scanned row and every requested zero-based column index,
\* the series holds one point keyed by the row's timestamp when the row has
\* one and no point when it has none; its value is the cell at that index
\* parsed as a number, None when the index is beyond the row or the cell
\* is empty or not a number; no call on an existing source raises; the row
\* "01/15/2024 09:30:00",1.5,,abc with indices 1,2,3 gives 1.5, None, None.
C1_PointPerRow ==
    /\ outcome["extract_multiple_columns"] \in {"running", "returned"} =>
           LET rows == ScannedRows("extract_multiple_columns")
               tss  == RowTimestamps(rows)
           IN  \A idx \in Range(column_indices) :
                   idx >= 0 => HoldsPointsOf(DictGet(time_series_map, idx),
                                             rows, tss, idx)
    /\ (column_index >= 0 /\ outcome["extract_column_data"] \in {"running", "returned"}) =>
           LET rows == ScannedRows("extract_column_data") IN
           HoldsPointsOf(time_series, rows, RowTimestamps(rows), column_index)
    /\ csvfile.exists =>
           /\ outcome["extract_multiple_columns"] \in {"notcalled", "running", "returned"}
           /\ outcome["extract_column_data"] \in {"notcalled", "running", "returned"}
    /\ (/\ csvfile.content = <<Row_ScenarioB>>
        /\ column_indices = <<1, 2, 3>>
        /\ outcome["extract_multiple_columns"] = "returned")
       => time_series_map = << <<1, << <<T1, Float("1.5")>> >> >>,
                               <<2, << <<T1, None>> >> >>,
                               <<3, << <<T1, None>> >> >> >>

\* A batch extraction of indices 0 and 7 has returned for a file with a
\* header row and a data row: index 7 is beyond every row, the header row
\* gave no point, and the single-column extraction of index 7 has returned
\* too.
C1_Witness ==
    /\ csvfile.content = <<Row_Header, Row_Earlier>>
    /\ column_indices = <<0, 7>>
    /\ outcome["extract_multiple_columns"] = "returned"
    /\ DictGet(time_series_map, 7) = << <<T2, None>> >>
    /\ outcome["extract_column_data"] = "returned"
    /\ column_index = 7
    /\ time_series = << <<T2, None>> >>

\* No two rows have the same timestamp.
NoDuplicateTimestamps(rows) ==
    LET tss == RowTimestamps(rows) IN
    \A i, j \in 1..Len(rows) : (i < j /\ tss[i] # "") => tss[i] # tss[j]

\* C2: the batch result has exactly one entry per requested index, and
\* for a file without duplicate timestamps the entry of index i equals
\* (same timestamps, same order, same values) the series that
\* extract_column_data returns for i.
C2_MultiEqualsSingle ==
    /\ outcome["extract_multiple_columns"] \in {"running", "returned"} =>
           /\ Range(DictKeys(time_series_map)) = Range(column_indices)
           /\ Len(time_series_map) = Cardinality(Range(column_indices))
    /\ (/\ outcome["extract_multiple_columns"] = "returned"
        /\ outcome["extract_column_data"] = "returned"
        /\ NoDuplicateTimestamps(csvfile.content))
       => /\ DictHas(time_series_map, column_index)
          /\ DictGet(time_series_map, column_index) = time_series

\* Both extractions have returned for a file of two rows with different
\* timestamps, the second in a later cell of its row; the batch asked for
\* indices 3 and 1 and the single extraction for index 1.
C2_Witness ==
    /\ csvfile.content = <<Row_Earlier, Row_LateTimestamp>>
    /\ column_indices = <<3, 1>>
    /\ column_index = 1
    /\ outcome["extract_multiple_columns"] = "returned"
    /\ outcome["extract_column_data"] = "returned"
    /\ time_series = << <<T2, Float("2")>>, <<T1, None>> >>

\* The series of an extraction in progress or returned, with the cell
\* position each is for.
ExtractedSeries(op) ==
    IF outcome[op] \notin {"running", "returned"} THEN {}
    ELSE IF op = "extract_column_data" THEN {<<column_index, time_series>>}
    ELSE {time_series_map[k] : k \in 1..Len(time_series_map)}

\* C5: a series never holds two points with the same timestamp; its
\* length is the number of distinct timestamps among the rows scanned (so
\* a row with a new timestamp adds one point and a row with a present
\* one adds none), and a timestamp that recurs keeps the value of the
\* later row.
C5_NoDuplicateTimestamps ==
    \A op \in {"extract_column_data", "extract_multiple_columns"} :
        LET rows == ScannedRows(op)
            tss  == RowTimestamps(rows)
        IN  \A e \in ExtractedSeries(op) :
                /\ \A a, b \in 1..Len(e[2]) : a # b => e[2][a][1] # e[2][b][1]
                /\ len(e[2]) = Cardinality(Range(tss) \ {""})
                /\ \A i, j \in 1..Len(rows) :
                       (/\ i < j
                        /\ e[1] >= 0
                        /\ tss[i] # ""
                        /\ tss[i] = tss[j]
                        /\ \A l \in (j + 1)..Len(rows) : tss[l] # tss[j])
                       => DictGet(e[2], tss[j]) = PointValue(rows[j], e[1])

\* Two rows with the same timestamp have been scanned: the series of
\* index 2 has one point, with the later row's value 7.25 in place of the
\* earlier row's None.
C5_Witness ==
    /\ csvfile.content = <<Row_ScenarioB, Row_LateTimestamp>>
    /\ column_indices = <<1, 2, 3>>
    /\ outcome["extract_multiple_columns"] = "returned"
    /\ DictGet(time_series_map, 2) = << <<T1, Float("7.25")>> >>
    /\ DictGet(time_series_map, 1) = << <<T1, None>> >>

\* The timestamps of the rows in scan order, each at its first occurrence.
RECURSIVE ScanOrder(_, _)
ScanOrder(tss, k) ==
    IF k = 0 THEN <<>>
    ELSE LET before == ScanOrder(tss, k - 1) IN
         IF tss[k] = "" \/ tss[k] \in Range(before) THEN before
         ELSE Append(before, tss[k])

\* C6: iterating a series yields its points in insertion order, which is
\* the order in which the rows were scanned (not timestamp order), the
\* points whose value is None included.
C6_IterationOrder ==
    \A op \in {"extract_column_data", "extract_multiple_columns"} :
        LET tss == RowTimestamps(ScannedRows(op)) IN
        \A e \in ExtractedSeries(op) :
            /\ DictKeys(iter(e[2])) = ScanOrder(tss, Len(tss))
            /\ \A k \in 1..Len(e[2]) : iter(e[2])[k][2] = DictGet(e[2], iter(e[2])[k][1])

\* A file whose second row is earlier than its first has been extracted
\* for a cell position beyond the rows: iteration yields the later
\* timestamp first, both with None.
C6_Witness ==
    /\ csvfile.content = <<Row_ScenarioB, Row_Earlier>>
    /\ outcome["extract_column_data"] = "returned"
    /\ column_index = 7
    /\ iter(time_series) = << <<T1, None>>, <<T2, None>> >>

-----------------------------------------------------------------------------
(* parse_csv_header.                                                       *)

\* The header cells parse_csv_header has gone through so far.
ScannedCells ==
    IF outcome["parse_csv_header"] = "running"
    THEN SubSeq(csvfile.content[1], 1, cursor)
    ELSE IF outcome["parse_csv_header"] = "returned" THEN csvfile.content[1]
    ELSE <<>>

\* The records are in header order and each index is the zero-based raw
\* position of a cell whose dequoted text the record keeps as original.
InHeaderOrder(cells) ==
    /\ \A a, b \in 1..Len(columns) : a < b => columns[a].index < columns[b].index
    /\ \A c \in 1..Len(columns) :
           /\ columns[c].index \in 0..(Len(cells) - 1)
           /\ columns[c].original = Dequote(cells[columns[c].index + 1])

\* The statement of C3 as claimed: one record per header cell, except one
\* for a leading cell that starts with "(PDH-CSV".
C3_Claimed ==
    outcome["parse_csv_header"] = "returned" =>
        LET cells == csvfile.content[1] IN
        /\ Len(columns) = Len(cells) -
               (IF Len(cells) > 0 /\ StartsWith(cells[1], "(PDH-CSV") THEN 1 ELSE 0)
        /\ InHeaderOrder(cells)

\* C3 (amended): parse_csv_header returns one record per header cell
\* except the cells whose dequoted text starts with "(PDH-CSV", wherever
\* they stand in the row: their number is subtracted, not at most one for
\* a leading cell; the records are in header order and each index is the
\* zero-based position of its cell in the raw header row.
C3_MarkerCellsSkipped ==
    LET cells == ScannedCells
        kept  == {k \in 1..Len(cells) : ~StartsWith(Dequote(cells[k]), "(PDH-CSV")}
    IN  /\ Len(columns) = Cardinality(kept)
        /\ {columns[c].index + 1 : c \in 1..Len(columns)} = kept
        /\ InHeaderOrder(cells)

\* A header with the leading marker cell and one metric cell has been
\* parsed: one record, whose index is 1.
C3_Witness ==
    /\ outcome["parse_csv_header"] = "returned"
    /\ Len(csvfile.content[1]) = 2
    /\ StartsWith(csvfile.content[1][1], "(PDH-CSV")
    /\ Len(columns) = 1
    /\ columns[1].index = 1
    /\ columns[1].host = "esx01.corp"

\* The segments of a cell after the two empty ones and the host.
AfterHost(col) == SubSeq(Split(col, "\\"), 4, Len(Split(col, "\\")))

-----------------------------------------------------------------------------
(* save_time_series and load_data_file.                                    *)

\* The date-time that the digits of a text of the timestamp shape name.
DatetimeOf(ts) ==
    [month |-> ToNat(SubSeq(ts, 1, 2)), day |-> ToNat(SubSeq(ts, 4, 5)),
     year |-> ToNat(SubSeq(ts, 7, 10)), hour |-> ToNat(SubSeq(ts, 12, 13)),
     minute |-> ToNat(SubSeq(ts, 15, 16)), second |-> ToNat(SubSeq(ts, 18, 19))]

\* The text names a date-time of the calendar.
IsCalendarTime(ts) ==
    LET d == DatetimeOf(ts) IN
    /\ d.year >= 1
    /\ d.month \in 1..12
    /\ d.day \in 1..DaysInMonth(d.year, d.month)
    /\ d.hour \in 0..23
    /\ d.minute \in 0..59
    /\ d.second \in 0..59

LoadFinished == outcome["load_data_file"] \in {"returned", "ValueError"}

\* The statement of C7 as claimed: every series saved and loaded back with
\* scale 1 is returned whole, None where the line read NaN.
C7_Claimed ==
    (outcome["save_time_series"] = "returned" /\ LoadFinished /\ scale = 1) =>
        /\ outcome["load_data_file"] = "returned"
        /\ Len(timestamps) = len(time_series)
        /\ Len(values) = len(time_series)
        /\ \A k \in 1..len(time_series) :
               /\ timestamps[k] = DatetimeOf(time_series[k][1])
               /\ values[k] = time_series[k][2]

\* C7 (amended): for every series that is not empty and whose timestamps
\* all name calendar date-times, save_time_series followed by
\* load_data_file with scale 1 returns the points, as many and in the same
\* order, each timestamp as the date-time it names and each value
\* unchanged, with the float nan (not None) in place of every None, which
\* was written as NaN.  (An empty series loads as EmptyData, and a point
\* whose timestamp has the MM/DD/YYYY HH:MM:SS shape but names no calendar
\* date-time is skipped by the loader.)
C7_RoundTrip ==
    (/\ outcome["save_time_series"] = "returned"
     /\ LoadFinished
     /\ scale = 1
     /\ len(time_series) > 0
     /\ \A k \in 1..len(time_series) : IsCalendarTime(time_series[k][1])) =>
        /\ outcome["load_data_file"] = "returned"
        /\ Len(timestamps) = len(time_series)
        /\ Len(values) = len(time_series)
        /\ \A k \in 1..len(time_series) :
               /\ timestamps[k] = DatetimeOf(time_series[k][1])
               /\ values[k] = IF time_series[k][2] = None THEN NaN
                              ELSE time_series[k][2]

\* A series of two points, the second one None, has been saved and loaded
\* back with scale 1.
C7_Witness ==
    /\ outcome["save_time_series"] = "returned"
    /\ outcome["load_data_file"] = "returned"
    /\ scale = 1
    /\ time_series = << <<T1, Float("1.5")>>, <<T2, None>> >>
    /\ values = <<Float("1.5"), NaN>>
    /\ timestamps = <<DatetimeOf(T1), DatetimeOf(T2)>>

\* C8: save_time_series writes one line per point, in iteration order,
\* each "<timestamp>: <value>" with a value token that reads back as the
\* point's value, and the token is the literal NaN exactly when the value
\* is None.
C8_OneLinePerPoint ==
    outcome["save_time_series"] = "returned" =>
        /\ datafile.exists
        /\ Len(datafile.content) = len(time_series)
        /\ \A k \in 1..len(time_series) :
               LET line  == datafile.content[k]
                   point == iter(time_series)[k]
                   parts == Split(SubSeq(line, 1, Len(line) - 1), ": ")
               IN  /\ Ch(line, Len(line)) = "\n"
                   /\ Len(parts) = 2
                   /\ parts[1] = point[1]
                   /\ (parts[2] = "NaN") <=> (point[2] = None)
                   /\ point[2] # None => Float(parts[2]) = point[2]

\* A series with a None and a float nan has been saved: the None is
\* written NaN, the float nan is written nan.
C8_Witness ==
    /\ outcome["save_time_series"] = "returned"
    /\ time_series = << <<T1, None>>, <<T2, NaN>> >>
    /\ datafile.content = <<T1 \o ": NaN\n", T2 \o ": nan\n">>

\* The line splits on ": " into a timestamp and a value that both parse.
WellFormedLine(line) ==
    LET parts == Split(Strip(line), ": ") IN
    /\ Len(parts) = 2
    /\ StrpTime(parts[1]).ok
    /\ ParseFloat(parts[2]).ok

\* The lines load_data_file has read so far.
ReadLines ==
    IF outcome["load_data_file"] = "running"
    THEN SubSeq(datafile.content, 1, cursor)
    ELSE IF LoadFinished THEN datafile.content
    ELSE <<>>

\* C9: no line makes load_data_file raise: every line read that is not
\* well formed is counted in skipped, and every other line contributes one
\* (timestamp, value) entry, in file order; when no line of the file
\* parses the call ends with ValueError, otherwise it returns; the count
\* of skipped lines is reported once when it is not zero (one skipped line
\* for a file holding only "not a valid line").
C9_MalformedLinesSkipped ==
    LET good == SelectSeq(ReadLines, WellFormedLine) IN
    /\ outcome["load_data_file"] \in {"running", "returned", "ValueError"} =>
           /\ Len(timestamps) = Len(good)
           /\ Len(values) = Len(good)
           /\ skipped = Len(ReadLines) - Len(good)
           /\ \A k \in 1..Len(good) :
                  LET parts == Split(Strip(good[k]), ": ") IN
                  /\ timestamps[k] = StrpTime(parts[1]).val
                  /\ values[k] = MulScale(Float(parts[2]), scale)
    /\ outcome["load_data_file"] = "running" => stderr = <<>>
    /\ LoadFinished =>
           /\ (Len(good) = 0) <=> (outcome["load_data_file"] = "ValueError")
           /\ stderr = IF skipped > 0 THEN <<skipped>> ELSE <<>>
    /\ datafile.exists => outcome["load_data_file"] # "FileNotFoundError"
    /\ (LoadFinished /\ datafile.content = <<"not a valid line\n">>) =>
           /\ outcome["load_data_file"] = "ValueError"
           /\ stderr = <<1>>

\* A file of a line with three parts and a well-formed line has been
\* loaded: one line skipped and reported, one entry returned.
C9_Witness ==
    /\ datafile.content = <<T1 \o ": 1.5: 2\n", T1 \o ": 1.5\n">>
    /\ outcome["load_data_file"] = "returned"
    /\ skipped = 1
    /\ stderr = <<1>>
    /\ Len(timestamps) = 1

-----------------------------------------------------------------------------
(* Missing files.                                                          *)

\* C10: on a path that does not exist, parse_csv_header,
\* extract_column_data and load_data_file each end with FileNotFoundError,
\* never with another exception and never by running or returning.
C10_NotFound ==
    /\ ~csvfile.exists =>
           /\ outcome["parse_csv_header"] \in {"notcalled", "FileNotFoundError"}
           /\ outcome["extract_column_data"] \in {"notcalled", "FileNotFoundError"}
    /\ ~datafile.exists =>
           outcome["load_data_file"] \in {"notcalled", "FileNotFoundError"}

\* The three functions have been called on missing files.
C10_Witness ==
    /\ ~csvfile.exists
    /\ ~datafile.exists
    /\ outcome["parse_csv_header"] = "FileNotFoundError"
    /\ outcome["extract_column_data"] = "FileNotFoundError"
    /\ outcome["load_data_file"] = "FileNotFoundError"

-----------------------------------------------------------------------------
(* Failures of the source.                                                 *)

\* The failure, other than a missing source, that a complete run of op on
\* the source meets: "" when there is none.
FailureOf(op) ==
    IF ~csvfile.exists THEN ""
    ELSE IF fault.kind = "PermissionError" THEN "PermissionError"
    ELSE IF op = "parse_csv_header"
    THEN (IF csvfile.content = <<>> THEN "StopIteration"
          ELSE IF fault = DecodeFault(1) THEN "UnicodeDecodeError"
          ELSE "")
    ELSE IF fault.kind = "UnicodeDecodeError" THEN "UnicodeDecodeError"
    ELSE ""

\* C11: in parse_csv_header, extract_column_data and
\* extract_multiple_columns every failure other than a missing source (no
\* header row, a permission failure, a decoding failure) ends the call with
\* ValueError whose cause is that failure; the call never ends with
\* FileNotFoundError on a source that exists and never with the unwrapped
\* exception.
C11_FailuresWrapped ==
    \A op \in CsvOps :
        /\ outcome[op] \in {"notcalled", "running", "returned",
                            "FileNotFoundError", "ValueError"}
        /\ csvfile.exists => outcome[op] # "FileNotFoundError"
        /\ (Ended(op) /\ FailureOf(op) # "") =>
               /\ outcome[op] = "ValueError"
               /\ raised[op] = FailureOf(op)
        /\ outcome[op] = "ValueError" => FailureOf(op) # ""

\* The header of a source was parsed, and the extraction of three columns
\* then failed on the second row, which cannot be decoded.
C11_Witness ==
    /\ csvfile.exists
    /\ fault = DecodeFault(2)
    /\ outcome["parse_csv_header"] = "returned"
    /\ outcome["extract_multiple_columns"] = "ValueError"
    /\ raised["extract_multiple_columns"] = "UnicodeDecodeError"
    /\ cursor = 1

-----------------------------------------------------------------------------
(* extract_and_save and extract_and_save_batch.                            *)

\* The extraction the running job calls.
InnerOp ==
    IF job.fn = "extract_and_save" THEN "extract_column_data"
    ELSE "extract_multiple_columns"

\* C12: an extraction has no partial success.  A scan that fails at any
\* row ends extract_column_data / extract_multiple_columns with the
\* exception and hands no series to the caller (a series is handed over
\* only when every row was scanned); the exception ends extract_and_save /
\* extract_and_save_batch, which then return nothing and have created or
\* modified no file of the output directory, series or metadata.
C12_NoPartialSuccess ==
    job.stage # "notcalled" =>
        /\ outcome[InnerOp] = "returned" => cursor = Len(csvfile.content)
        /\ outcome[InnerOp] \in Errors =>
               job.stage \in {"extracting", outcome[InnerOp]}
        /\ job.stage \in {"saved", "saving", "returned"} =>
               outcome[InnerOp] = "returned"
        /\ job.stage \in Errors \cup {"extracting"} =>
               /\ fs \in {NoFiles, OldOutputs}
               /\ result = NoResult

\* A batch extraction has failed on the second row, after it collected the
\* points of the first; the error has propagated and the outputs of the
\* earlier run are as they were.
C12_Witness ==
    /\ job.stage = "ValueError"
    /\ job.fn = "extract_and_save_batch"
    /\ fault = DecodeFault(2)
    /\ cursor = 1
    /\ len(time_series_map[1][2]) = 1
    /\ fs = OldOutputs

-----------------------------------------------------------------------------
(* The source as a resource.                                               *)

\* C13: a call of extract_column_data or of extract_multiple_columns opens
\* the source exactly once, however many column indices are requested,
\* fetches the rows in one sequential pass, each row at most once and all
\* of them before it returns, and holds the handle only while it runs: the
\* handle is closed when the call has returned and when it has raised.
C13_OneScopedHandle ==
    \A op \in {"extract_column_data", "extract_multiple_columns"} :
        LET h == handle[op] IN
        /\ h.opens = IF outcome[op] = "notcalled" THEN 0 ELSE 1
        /\ h.open <=> outcome[op] = "running"
        /\ Len(h.reads) <= Len(csvfile.content)
        /\ \A k \in 1..Len(h.reads) : h.reads[k] = k
        /\ outcome[op] = "returned" => Len(h.reads) = Len(csvfile.content)

\* An extraction of three columns has opened the source once, fetched the
\* first row, failed on the second and released the handle.
C13_Witness ==
    /\ outcome["extract_multiple_columns"] = "ValueError"
    /\ column_indices = <<1, 2, 3>>
    /\ fault = DecodeFault(2)
    /\ handle["extract_multiple_columns"] =
           [opens |-> 1, open |-> FALSE, reads |-> <<1>>]

-----------------------------------------------------------------------------
(* Friendly names.                                                         *)

\* The positions <<i, j>> of the category at which "Virtual Disk(" starts
\* and the ")" that closes a group of one or more characters stands.
GroupsOf(category) ==
    {p \in (1..Len(category)) \X (1..Len(category)) :
        /\ p[1] + 13 < p[2]
        /\ SubSeq(category, p[1], p[1] + 12) = "Virtual Disk("
        /\ Ch(category, p[2]) = ")"
        /\ \A k \in (p[1] + 13)..(p[2] - 1) : Ch(category, k) # ")"}

\* C14: get_friendly_name returns "<token> - <counter>" when the category
\* contains "Virtual Disk" immediately followed by a parenthesized token
\* (the leftmost such group; a token is one or more characters other than
\* ")"), otherwise "<category> - <counter>" when the counter is not empty,
\* otherwise the original text; a second call on the same column returns
\* the string of the first.
C14_FriendlyName ==
    result.fn = "get_friendly_name" =>
        LET col    == result.args
            groups == GroupsOf(col.category)
        IN  /\ IF groups # {}
               THEN LET p == CHOOSE q \in groups :
                                 \A o \in groups : q[1] <= o[1]
                    IN  result.value =
                            SubSeq(col.category, p[1] + 13, p[2] - 1)
                                \o " - " \o col.counter
               ELSE IF col.counter # ""
               THEN result.value = col.category \o " - " \o col.counter
               ELSE result.value = col.original
            /\ result.value = result.first

\* The column of Scenario A has been asked twice for its friendly name.
C14_Witness ==
    /\ result.fn = "get_friendly_name"
    /\ result.args.category = "Virtual Disk(VM1:scsi0:0)"
    /\ result.args.counter = "Average MilliSec/Write"
    /\ result.value = "VM1:scsi0:0 - Average MilliSec/Write"
    /\ result.calls = 2

-----------------------------------------------------------------------------
(* Chart titles and metadata.                                              *)

\* The positions of the path at which "col_" and a digit stand.
ColPositions(path) ==
    {i \in 1..Len(path) :
        /\ i + 4 <= Len(path)
        /\ SubSeq(path, i, i + 3) = "col_"
        /\ Ch(path, i + 4) \in DigitSet}

\* The N of the leftmost col_<N> of the path: its longest run of digits.
ColNumber(path) ==
    LET i == CHOOSE j \in ColPositions(path) :
                 \A o \in ColPositions(path) : j <= o
        e == CHOOSE k \in (i + 4)..Len(path) :
                 /\ \A d \in (i + 4)..k : Ch(path, d) \in DigitSet
                 /\ k = Len(path) \/ Ch(path, k + 1) \notin DigitSet
    IN  SubSeq(path, i + 4, e)

\* The title by the file name: the third and fourth rule of generate_title.
TitleByName(path) ==
    IF ColPositions(path) # {}
    THEN "Column " \o ColNumber(path) \o " Data Over Time"
    ELSE "Data from " \o path

\* The text of the companion .meta file of a series file, without the
\* white space around it.
StoredTitle(path) == Strip(ReadText(fs[MetaFile(path)]))

\* The statement of C15 as claimed: the custom title whenever one is
\* passed, otherwise the title of the companion file whenever that file
\* exists, otherwise the title by the file name.
C15_Claimed ==
    result.fn = "generate_title" =>
        LET data_file    == result.args[1]
            custom_title == result.args[2]
        IN  result.value =
                IF custom_title # NoneStr THEN custom_title
                ELSE IF MetaFile(data_file) \in DOMAIN fs
                THEN StoredTitle(data_file)
                ELSE TitleByName(data_file)

\* C15 (amended): generate_title returns the custom title when one is
\* passed and is not the empty text; otherwise the text of the companion
\* .meta file without the white space around it, when that file exists and
\* that text is not empty; otherwise "Column <N> Data Over Time" when the
\* path contains col_<N>, N the digits of the leftmost such place;
\* otherwise "Data from <path>".
C15_TitlePrecedence ==
    result.fn = "generate_title" =>
        LET data_file    == result.args[1]
            custom_title == result.args[2]
        IN  result.value =
                IF custom_title \notin {NoneStr, ""} THEN custom_title
                ELSE IF MetaFile(data_file) \in DOMAIN fs
                        /\ StoredTitle(data_file) # ""
                THEN StoredTitle(data_file)
                ELSE TitleByName(data_file)

\* A title was generated for col_1.data, with no custom title, while
\* col_1.meta held a title: the title of the file won over the name.
C15_Witness ==
    /\ result.fn = "generate_title"
    /\ result.args = <<"col_1.data", NoneStr>>
    /\ "col_1.meta" \in DOMAIN fs
    /\ fs["col_1.meta"] = <<" padded\n">>
    /\ result.value = "padded"


\* The step is a load_metadata(path) that follows a
\* save_metadata(title, path).
LoadFollowsSave ==
    /\ result.fn = "save_metadata"
    /\ result'.fn = "load_metadata"
    /\ result'.args = <<result.args[2]>>

\* The statement of C16 as claimed: load_metadata returns every title that
\* save_metadata has just saved for the path.
C16_Claimed == [][LoadFollowsSave => result'.value = result.args[1]]_vars

\* C16 (amended): for every series path and every title that has no white
\* space at its start or end and no carriage return, save_metadata(title,
\* path) followed by load_metadata(path) returns that title (load_metadata
\* returns the saved text without the white space around it, as text mode
\* reads it); save_metadata writes the title to the file that has the base
\* name of the series file and the extension .meta, and to no other file;
\* load_metadata returns None when that file does not exist.
C16_MetadataRoundTrip ==
    /\ [][/\ (/\ LoadFollowsSave
              /\ Strip(result.args[1]) = result.args[1]
              /\ ~Contains(result.args[1], "\r"))
             => result'.value = result.args[1]
          /\ LoadFollowsSave
             => result'.value = Strip(UniversalNewlines(result.args[1]))
          /\ (result'.fn = "save_metadata" /\ result' # result) =>
                 LET meta == SplitextRoot(result'.args[2]) \o ".meta" IN
                 /\ DOMAIN fs' = (DOMAIN fs) \cup {meta}
                 /\ fs'[meta] = <<result'.args[1]>>
                 /\ \A q \in DOMAIN fs : q # meta => fs'[q] = fs[q]]_vars
    /\ [](result.fn = "load_metadata" =>
             LET meta == SplitextRoot(result.args[1]) \o ".meta" IN
             meta \notin DOMAIN fs => result.value = NoneStr)

\* The title saved for a series file without extension, in a directory
\* with a dot in its name, has been loaded back.
C16_Witness ==
    /\ result.fn = "load_metadata"
    /\ result.args = <<"out.d/col_12">>
    /\ DOMAIN fs = {"out.d/col_12.meta"}
    /\ result.value = "Memory - Free MBytes"

-----------------------------------------------------------------------------
(* Summaries.                                                              *)

\* The pattern is supplied.
Supplied(pattern) == pattern \notin {NoneStr, ""}

\* The positions in columns of the columns that satisfy every supplied
\* pattern of the summarize_columns that returned.
KeptColumns(category_pattern, counter_pattern) ==
    {k \in 1..Len(columns) :
        /\ Supplied(category_pattern)
              => ReSearch(category_pattern, columns[k].category)
        /\ Supplied(counter_pattern)
              => ReSearch(counter_pattern, columns[k].counter)}

\* The count of a key in a table, 0 for a key the table lacks.
CountOf(table, key) == IF DictHas(table, key) THEN DictGet(table, key) ELSE 0

KeySet(table) == {table[i][1] : i \in 1..Len(table)}

\* The keys of a table are distinct and their counts positive.
IsTable(table) ==
    /\ \A i, j \in 1..Len(table) : table[i][1] = table[j][1] => i = j
    /\ \A i \in 1..Len(table) : table[i][2] > 0

Categories == {columns[k].category : k \in 1..Len(columns)}

CounterNames == {columns[k].counter : k \in 1..Len(columns)}

\* The statement of C17 as claimed: the three tables are built only over
\* the columns that satisfy every supplied pattern and whose category is
\* not empty, the combined table over those whose counter is not empty
\* either.
C17_Claimed ==
    result.fn = "summarize_columns" =>
        LET kept == KeptColumns(result.args[1], result.args[2]) IN
        /\ \A i \in 1..3 : IsTable(result.value[i])
        /\ \A c \in Categories \cup KeySet(result.value[1]) :
               CountOf(result.value[1], c) =
                   Cardinality({k \in kept : /\ columns[k].category = c
                                              /\ columns[k].category # ""})
        /\ \A n \in (CounterNames \cup KeySet(result.value[2])) \ {""} :
               CountOf(result.value[2], n) <=
                   Cardinality({k \in kept : /\ columns[k].counter = n
                                              /\ columns[k].category # ""})
        /\ \A p \in (Categories \X CounterNames) \cup KeySet(result.value[3]) :
               CountOf(result.value[3], p) =
                   Cardinality({k \in kept : /\ columns[k].category = p[1]
                                              /\ columns[k].counter = p[2]
                                              /\ columns[k].category # ""
                                              /\ columns[k].counter # ""})

\* C17 (amended): summarize_columns returns three frequency tables, by
\* category, by counter and by (category, counter) pair; each table counts
\* the columns whose own key is not empty: the category table those with a
\* category, the counter table those with a counter (whether or not they
\* have a category), the combined table those with both.  When patterns
\* are supplied a column is counted in none of the tables unless its
\* category matches category_pattern and its counter matches
\* counter_pattern, both searched as regular expressions without regard
\* to case.
C17_FrequencyTables ==
    result.fn = "summarize_columns" =>
        LET kept == KeptColumns(result.args[1], result.args[2]) IN
        /\ \A i \in 1..3 : IsTable(result.value[i])
        /\ \A c \in Categories \cup KeySet(result.value[1]) :
               CountOf(result.value[1], c) =
                   Cardinality({k \in kept : /\ columns[k].category = c
                                              /\ columns[k].category # ""})
        /\ \A n \in CounterNames \cup KeySet(result.value[2]) :
               CountOf(result.value[2], n) =
                   Cardinality({k \in kept : /\ columns[k].counter = n
                                              /\ columns[k].counter # ""})
        /\ \A p \in (Categories \X CounterNames) \cup KeySet(result.value[3]) :
               CountOf(result.value[3], p) =
                   Cardinality({k \in kept : /\ columns[k].category = p[1]
                                              /\ columns[k].counter = p[2]
                                              /\ columns[k].category # ""
                                              /\ columns[k].counter # ""})

\* The header of three virtual disks was summarized with a lower-case
\* category pattern and a counter pattern: one column of six passes.
C17_Witness ==
    /\ result.fn = "summarize_columns"
    /\ result.args = <<"virtual disk.*scsi0:0", "write">>
    /\ csvfile.content = <<Header_ThreeDisks>>
    /\ result.value[1] = << <<"Virtual Disk(VM1:scsi0:0)", 1>>,
                            <<"Virtual Disk(VM2:scsi0:0)", 1>> >>
    /\ result.value[2] = << <<"Average MilliSec/Write", 2>> >>

\* The positions in columns of the columns of a virtual disk, and of a
\* physical disk.
VirtualDiskColumns ==
    {k \in 1..Len(columns) : Contains(columns[k].category, "Virtual Disk")}

PhysicalDiskColumns ==
    {k \in 1..Len(columns) : Contains(columns[k].category, "Physical Disk")}

\* summarize_columns returned from the source of scenario D: the category
\* pattern is "Virtual Disk", no counter pattern, and the header holds
\* three columns of virtual disks and two of physical disks.
ScenarioD ==
    /\ result.fn = "summarize_columns"
    /\ result.args = <<"Virtual Disk", NoneStr>>
    /\ Cardinality(VirtualDiskColumns) = 3
    /\ Cardinality(PhysicalDiskColumns) = 2
    /\ Len(columns) = 5

Shown(entry, combined) ==
    IF combined THEN <<Short(entry[1][1]), Short(entry[1][2])>> ELSE entry[1]

\* The positions in the table of the entries a line of the listing may
\* stand for.
PositionsOf(table, line, combined) ==
    {k \in 1..Len(table) : /\ Shown(table[k], combined) = line[2]
                           /\ table[k][2] = line[3]}

\* The listing shows entries of the table, each once, ranked from 1, in
\* descending order of count, entries of equal count in the order of the
\* table, which is the order of their discovery.
RankedStably(table, listing, combined) ==
    /\ \A j \in 1..Len(listing) : listing[j][1] = j
    /\ \A j \in 1..(Len(listing) - 1) : listing[j][3] >= listing[j + 1][3]
    /\ \E pos \in [1..Len(listing) -> 1..Len(table)] :
          /\ \A j \in 1..Len(listing) :
                 pos[j] \in PositionsOf(table, listing[j], combined)
          /\ \A i, j \in 1..Len(listing) :
                 (i < j /\ listing[i][3] = listing[j][3]) => pos[i] < pos[j]
          /\ \A i, j \in 1..Len(listing) : i # j => pos[i] # pos[j]

\* C19: print_summary lists, for each of the three tables, at most top_n
\* entries in descending count order, and entries with equal counts
\* appear in the order in which they were first discovered (stable sort).
C19_TopNStable ==
    result.fn = "print_summary" =>
        \A t \in 1..3 :
            /\ Len(result.value[t]) <= result.args[2]
            /\ RankedStably(result.args[1][t], result.value[t], t = 3)

\* For a top_n that is not negative print_summary lists the top_n first
\* entries of the stable ranking, or all of them when there are fewer.
C19_NonNegative ==
    (result.fn = "print_summary" /\ result.args[2] >= 0) =>
        \A t \in 1..3 :
            LET table   == result.args[1][t]
                listing == result.value[t]
            IN  /\ Len(listing) = IF result.args[2] < Len(table)
                                  THEN result.args[2] ELSE Len(table)
                /\ RankedStably(table, listing, t = 3)
                /\ \A k \in 1..Len(table) :
                       (\A j \in 1..Len(listing) :
                            k \notin PositionsOf(table, listing[j], t = 3))
                           => \A j \in 1..Len(listing) :
                                  table[k][2] <= listing[j][3]

\* The tables of the header of three disks were printed with top_n 2: the
\* physical disk, of count 2, comes first, then the first discovered of
\* the three virtual disks of count 1.
C19_TiesWitness ==
    /\ result.fn = "print_summary"
    /\ result.args[2] = 2
    /\ result.args[1][1] = << <<"Virtual Disk(VM1:scsi0:0)", 1>>,
                              <<"Virtual Disk(VM1:scsi0:1)", 1>>,
                              <<"Physical Disk(naa.6)", 2>>,
                              <<"Virtual Disk(VM2:scsi0:0)", 1>> >>
    /\ result.value[1] = << <<1, "Physical Disk(naa.6)", 2>>,
                            <<2, "Virtual Disk(VM1:scsi0:0)", 1>> >>

-----------------------------------------------------------------------------
(* Output file names.                                                      *)

\* The path with its ".data" extension replaced by ".png"; a path without
\* that extension has nothing to replace.
WithPngExtension(path) ==
    IF EndsWith(path, ".data")
    THEN SubSeq(path, 1, Len(path) - Len(".data")) \o ".png"
    ELSE path

\* C20: generate_output_filename returns "esxtop_col_<N>.png" for every
\* input path containing col_<N>, and for every other input path returns
\* that path with its ".data" extension replaced by ".png".
C20_OutputFilename ==
    result.fn = "generate_output_filename" =>
        LET data_file == result.args[1] IN
        result.value = IF ColPositions(data_file) # {}
                       THEN "esxtop_col_" \o ColNumber(data_file) \o ".png"
                       ELSE WithPngExtension(data_file)

\* The names the tests expect are returned for the paths of the tests.
C20_TestedNames ==
    result.fn = "generate_output_filename" =>
        /\ result.args = <<"col_456.data">> => result.value = "esxtop_col_456.png"
        /\ result.args = <<"my_data.data">> => result.value = "my_data.png"

\* A path with ".data" in a directory name was given.
C20_Reached ==
    /\ result.fn = "generate_output_filename"
    /\ result.args = <<"run.data/series.data">>
    /\ result.value = "run.png/series.png"

-----------------------------------------------------------------------------
(* Indices that are no cell position.                                      *)

\* The index is a zero-based cell position of the row.
ValidPosition(row, index) == index >= 0 /\ index < Len(row)

\* The series of the index holds None for every row whose timestamp no
\* later row repeats and of which the index is no cell position.
MissingWhereInvalid(series, rows, index) ==
    LET tss == RowTimestamps(rows) IN
    \A j \in 1..Len(rows) :
        (/\ tss[j] # ""
         /\ \A i \in (j + 1)..Len(rows) : tss[i] # tss[j]
         /\ ~ValidPosition(rows[j], index))
        => DictGet(series, tss[j]) = None

\* C30: a requested column index that is not a valid zero-based cell
\* position of a row, every negative index included, yields a missing
\* value (None) for that row, never the value of some other cell.
C30_InvalidIndexIsMissing ==
    /\ outcome["extract_multiple_columns"] = "returned" =>
           \A idx \in Range(column_indices) :
               MissingWhereInvalid(DictGet(time_series_map, idx),
                                   csvfile.content, idx)
    /\ outcome["extract_column_data"] = "returned" =>
           MissingWhereInvalid(time_series, csvfile.content, column_index)

\* For the indices beyond the row, the part of C30 that holds.
C30_BeyondTheRow ==
    /\ outcome["extract_multiple_columns"] = "returned" =>
           \A idx \in Range(column_indices) :
               idx >= 0 => MissingWhereInvalid(DictGet(time_series_map, idx),
                                               csvfile.content, idx)
    /\ (outcome["extract_column_data"] = "returned" /\ column_index >= 0) =>
           MissingWhereInvalid(time_series, csvfile.content, column_index)

\* Index -1 was extracted from a row whose last cell is a number.
C30_Reached ==
    /\ outcome["extract_multiple_columns"] = "returned"
    /\ column_indices = <<-1>>
    /\ csvfile.content = <<Row_LateTimestamp>>
    /\ time_series_map = << <<-1, << <<T1, Float("7.25")>> >> >> >>

-----------------------------------------------------------------------------
(* Series files and their companions over several calls.                   *)

\* A title was supplied.
HasTitle(title) == title \notin {NoneStr, ""}

\* The companion of the series file, when there is one that is another
\* file than the series file, holds the title.
CompanionHolds(path, title) ==
    (MetaFile(path) \in DOMAIN fs /\ MetaFile(path) # path) =>
        HasTitle(title) /\ fs[MetaFile(path)] = <<title>>

\* C28: after any sequence of extract_and_save / extract_and_save_batch
\* calls, whenever a companion .meta file exists for a series file, its
\* title is the one supplied by the call that most recently wrote that
\* series file: a call that supplies no title leaves no earlier title
\* behind.
C28_TitleOfLatestCall ==
    job.stage = "returned" =>
        IF job.fn = "extract_and_save"
        THEN CompanionHolds(job.output_file, job.column_title)
        ELSE \A k \in 1..Len(job.output_files) :
                 CompanionHolds(job.output_files[k],
                                TitleOf(job.column_titles,
                                        time_series_map[k][1]))

\* The companion written by a call holds the title of that call: the part
\* of C28 that holds.
C28_SuppliedTitleIsSaved ==
    (/\ job.stage = "returned"
     /\ job.fn = "extract_and_save"
     /\ HasTitle(job.column_title))
        => /\ MetaFile(job.output_file) \in DOMAIN fs
           /\ fs[MetaFile(job.output_file)] = <<job.column_title>>

\* C29: for every output_file the companion path save_metadata derives
\* differs from the series file path, so extract_and_save called with a
\* column title leaves the series file it has just written as written,
\* also when output_file has no extension or already ends in .meta.
C29_SeriesFileKept ==
    (/\ job.stage = "returned"
     /\ job.fn = "extract_and_save"
     /\ HasTitle(job.column_title))
        => /\ MetaFile(job.output_file) # job.output_file
           /\ fs[job.output_file] = SavedLines(time_series)

\* The part of C29 that holds: an output_file that does not end in .meta.
C29_OtherExtensions ==
    (/\ job.stage = "returned"
     /\ job.fn = "extract_and_save"
     /\ HasTitle(job.column_title)
     /\ ~EndsWith(job.output_file, ".meta"))
        => /\ MetaFile(job.output_file) # job.output_file
           /\ fs[job.output_file] = SavedLines(time_series)

-----------------------------------------------------------------------------
(* Dequoting.                                                              *)

Quote == "\""

\* The cell without one pair of enclosing double quotes, when it has such
\* a pair; the cell otherwise.
WithoutOnePair(cell) ==
    IF Len(cell) >= 2 /\ Ch(cell, 1) = Quote /\ Ch(cell, Len(cell)) = Quote
    THEN SubSeq(cell, 2, Len(cell) - 1)
    ELSE cell

\* The cell from its first to its last character that is no double quote:
\* the cell without its leading and its trailing quotes.
WithoutOuterQuotes(cell) ==
    LET inner == {k \in 1..Len(cell) : Ch(cell, k) # Quote} IN
    IF inner = {} THEN ""
    ELSE SubSeq(cell,
                CHOOSE k \in inner : \A j \in inner : k <= j,
                CHOOSE k \in inner : \A j \in inner : k >= j)

\* The timestamps of the rows, a cell being tested after clean(cell).
TimestampsBy(rows, clean(_)) ==
    {clean(rows[j][k]) : <<j, k>> \in
        {<<j, k>> \in UNION {{j} \X (1..Len(rows[j])) : j \in 1..Len(rows)} :
            /\ FullMatch(TIMESTAMP_PATTERN, clean(rows[j][k]))
            /\ \A i \in 1..(k - 1) :
                   ~FullMatch(TIMESTAMP_PATTERN, clean(rows[j][i]))}}

\* The header was parsed and the rows extracted, a cell being dequoted by
\* clean(cell): the original of a column is its dequoted header cell, and
\* the timestamps of the series are the dequoted timestamp cells.
DequotedBy(clean(_)) ==
    /\ outcome["parse_csv_header"] = "returned" =>
           \A c \in 1..Len(columns) :
               columns[c].original = clean(csvfile.content[1][columns[c].index + 1])
    /\ outcome["extract_column_data"] = "returned" =>
           Range(DictKeys(time_series)) = TimestampsBy(csvfile.content, clean)
    /\ outcome["extract_multiple_columns"] = "returned" =>
           \A idx \in Range(column_indices) :
               Range(DictKeys(DictGet(time_series_map, idx)))
                   = TimestampsBy(csvfile.content, clean)

\* The statement of C25 as claimed: dequoting removes exactly one pair of
\* enclosing double quotes when such a pair is present, and nothing else.
C25_Claimed == DequotedBy(WithoutOnePair)

\* C25 (amended): dequoting removes every leading and every trailing
\* double quote of a cell, and nothing else, both when parse_csv_header
\* reads a header cell and when the extractor tests a data cell for being
\* the row's timestamp: a cell with only a leading or only a trailing
\* quote loses it, and a cell with more than one enclosing pair loses
\* them all.
C25_OuterQuotesRemoved == DequotedBy(WithoutOuterQuotes)

\* The header with quotes left in its cells was parsed, and the row whose
\* timestamp has a leading quote only gave a point.
C25_Witness ==
    /\ csvfile.content = <<Row_QuotedHeader, Row_HalfQuoted, Row_Quoted>>
    /\ outcome["parse_csv_header"] = "returned"
    /\ columns[1].original = "\\\\esx01\\Memory\\Free MBytes"
    /\ columns[2].original = "Interval"
    /\ outcome["extract_column_data"] = "returned"
    /\ DictKeys(time_series) = <<T1, T2>>

-----------------------------------------------------------------------------
(* The web wrapper's directories.                                          *)

\* Every request has been answered.
AllAnswered == \A r \in DOMAIN requests : requests[r].pc = "done"

\* The directories that hold a file a script of request r made.
DirsOfScripts(r) ==
    {d \in DOMAIN tmpdirs : \E f \in Generated(tmpdirs[d]) : f.by = r}

\* C27: for any arrival order and interleaving of upload requests, each
\* analysis script runs with that request's output directory as its
\* working directory, the files it generates are created in and listed
\* from that directory only, and once all requests have finished the
\* process working directory is the one it was before the first request.
C27_OwnDirectory ==
    /\ \A r \in DOMAIN requests :
           /\ \A k \in 1..Len(requests[r].ran_in) :
                  requests[r].ran_in[k] = requests[r].output_dir
           /\ DirsOfScripts(r) \subseteq {requests[r].output_dir}
           /\ \A f \in requests[r].files : f.by = r
    /\ AllAnswered => cwd = StartDir

\* Two analyses were in flight together and both have been answered.
C27_Reached ==
    /\ AllAnswered
    /\ \A r \in DOMAIN requests : requests[r].status = 200
    /\ cwd # StartDir

-----------------------------------------------------------------------------
(* Concurrent invocations on one output path.                              *)

AllSaved == \A w \in DOMAIN writers : writers[w].pc = "done"

\* The files are those of invocation w: the series file holds exactly its
\* lines, and the companion, which exists when w has a title, its title.
FilesOf(w) ==
    /\ disk[writers[w].output_file] = SavedText(SavedLines(writers[w].series))
    /\ IF HasTitle(writers[w].column_title)
       THEN /\ MetaFile(writers[w].output_file) \in DOMAIN disk
            /\ disk[MetaFile(writers[w].output_file)] = writers[w].column_title
       ELSE MetaFile(writers[w].output_file) \notin DOMAIN disk

\* C22: under every interleaving of two concurrent extract_and_save
\* invocations that write the same output path the last writer wins: the
\* final series file is exactly the complete output of one of the
\* invocations, never a mixture of lines from both, and its companion
\* .meta title belongs to that same invocation.
C22_LastWriterWins ==
    AllSaved => \E w \in DOMAIN writers : FilesOf(w)

\* The series file is the complete output of one of the invocations.
C22_NoMixture ==
    AllSaved => \E w \in DOMAIN writers :
        disk[writers[w].output_file] = SavedText(SavedLines(writers[w].series))

\* The invocations ended with a series file that is a mixture: the line
\* of one followed by the second line of the other.
C22_Reached ==
    /\ AllSaved
    /\ disk["col_1.data"] = T1 \o ": NaN\n" \o T1 \o ": 1.5\n"

-----------------------------------------------------------------------------
(* The scripts: errors, the paths of a batch, --limit, and the scripts     *)
(* they replace.                                                           *)

EntryPoints ==
    {"extract_column.py", "extract_columns_batch.py", "find_column_idx.py",
     "summarize_columns.py", "visualize_data.py"}

\* A run of script has exited.
Exited(script) == process.stage = "exited" /\ process.script = script

\* A run of an entry point has exited after an exception reached its main.
ExitedOnError ==
    /\ process.stage = "exited"
    /\ process.script \in EntryPoints
    /\ process.error # ""

\* C21: every error that reaches a CLI entry point (extract_column,
\* extract_columns_batch, find_column_idx, summarize_columns,
\* visualize_data) is turned into a one-line message plus a non-zero exit
\* status: no exception is left uncaught, no traceback is printed, and
\* the process never exits 0 after an error.
C21_OneLineAndNonZero ==
    ExitedOnError =>
        /\ process.status # 0
        /\ ~process.uncaught
        /\ ~process.traceback
        /\ Len(process.report) = 1

\* The process never exits 0 after an error, and a handler of main prints
\* one line for the error it catches.
C21_NonZeroExit ==
    ExitedOnError =>
        /\ process.status # 0
        /\ ~process.uncaught => Len(process.report) = 1

\* summarize_columns.py has exited on an empty source, with the message
\* and the traceback.
C21_Reached ==
    /\ Exited("summarize_columns.py")
    /\ process.error = "ValueError"
    /\ process.traceback
    /\ process.stderr = << "Analyzing esxtop.csv...",
                           "An error occurred: Error parsing CSV file: " >>

BatchReturned ==
    job.stage = "returned" /\ job.fn = "extract_and_save_batch"

\* The path of the series file of a requested index.
PathOfIndex(index) == PathJoin(job.output_dir, DefaultOutput(index))

\* C23: extract_and_save_batch writes exactly one col_<i>.data per
\* requested index and returns the paths in the order of the requested
\* indices, so that the k-th returned path belongs to the k-th requested
\* index (the pairing zip(column_indices, output_files) of the batch
\* script relies on).
C23_PathPerIndex ==
    BatchReturned =>
        /\ Len(result.value) = Len(job.column_indices)
        /\ \A k \in 1..Len(job.column_indices) :
               /\ result.value[k] = PathOfIndex(job.column_indices[k])
               /\ result.value[k] \in DOMAIN fs
        /\ \A path \in DOMAIN fs :
               EndsWith(path, ".data") => path \in Range(result.value)

\* For requested indices that differ from each other the k-th path is
\* that of the k-th index.
C23_DistinctIndices ==
    (/\ BatchReturned
     /\ \A k, m \in 1..Len(job.column_indices) :
            job.column_indices[k] = job.column_indices[m] => k = m)
        => /\ Len(result.value) = Len(job.column_indices)
           /\ \A k \in 1..Len(job.column_indices) :
                  /\ result.value[k] = PathOfIndex(job.column_indices[k])
                  /\ result.value[k] \in DOMAIN fs

\* The batch script has printed the file of column 2 with the title of
\* column 1.
C23_Reached ==
    /\ Exited("extract_columns_batch.py")
    /\ process.status = 0
    /\ process.args.column_indices = <<1, 1, 2>>
    /\ process.stdout[Len(process.stdout)]
           = "  - ./col_2.data (Memory - Free MBytes)"

\* The lines of the first n columns of the header.
FirstColumns(n) ==
    [k \in 1..(IF n < Len(columns) THEN n ELSE Len(columns)) |->
        print_column_info(columns[k])]

\* C24: find_column_idx.py with --limit N prints, for every N >= 0,
\* exactly the first min(N, number of columns) columns; all columns are
\* printed only when --limit is absent.
C24_LimitPrintsFirstN ==
    (Exited("find_column_idx.py") /\ process.status = 0) =>
        IF process.args.limited
        THEN process.args.limit >= 0 =>
                 process.stdout = FirstColumns(process.args.limit)
        ELSE process.stdout = FirstColumns(Len(columns))

\* For N > 0 and without --limit the columns printed are those.
C24_PositiveLimit ==
    (Exited("find_column_idx.py") /\ process.status = 0) =>
        IF process.args.limited
        THEN process.args.limit > 0 =>
                 process.stdout = FirstColumns(process.args.limit)
        ELSE process.stdout = FirstColumns(Len(columns))

\* --limit 0 has printed the two columns of the header.
C24_Reached ==
    /\ Exited("find_column_idx.py")
    /\ process.status = 0
    /\ process.args.limited
    /\ process.args.limit = 0
    /\ Len(process.stdout) = 2

\* C26: the packaged scripts are backward compatible with the scripts
\* they replace: scripts/extract_column.py <csv> <k> writes the same
\* col_<k>.data that get_value_by_col_index_v2_fs.py writes for the same
\* input, and scripts/find_column_idx.py prints each column under the
\* same number as legacy/find_column_idx.py.
C26_BackwardCompatible ==
    /\ (Exited("extract_column.py") /\ process.status = 0) =>
           fs[DefaultOutput(process.args.column_index)]
               = LegacyLines(csvfile.content, process.args.column_index)
    /\ (Exited("find_column_idx.py") /\ process.status = 0
            /\ ~process.args.limited) =>
           process.stdout = LegacyColumnLines(csvfile.content[1])

\* The two scripts of a pair print the same raw cells, in the same order.
C26_SameColumns ==
    (Exited("find_column_idx.py") /\ process.status = 0
         /\ ~process.args.limited) =>
        [k \in 1..Len(columns) |-> columns[k].original]
            = parsed_columns(csvfile.content[1], 1)

\* extract_column.py has written column 1 of the two samples.
C26_Reached ==
    /\ Exited("extract_column.py")
    /\ process.status = 0
    /\ process.args.column_index = 1
    /\ fs["col_1.data"] = <<T1 \o ": 5.0\n", T2 \o ": 6.0\n">>
    /\ LegacyLines(csvfile.content, 1) = <<T1 \o ": 7.5\n", T2 \o ": 8.5\n">>

====
